---- MODULE Spec2Model ----
(***************************************************************************)
(* Verification model of the OCR block pipeline of plobin-proto-ocr-reader *)
(* (GenkitGo port).                                                        *)
(*                                                                         *)
(*  Spec      the Go page pipeline: ExtractBlocks.Execute on one image and *)
(*            ProcessPDF.Execute page by page.                             *)
(*  SpecMerge BlockMerger.Merge (design document section 4.1).             *)
(*  SpecClassify SectionClassifier.Classify (section 4.2).                 *)
(*  SpecTree  HierarchyBuilder.BuildTree (section 4.3).                    *)
(*  SpecHTTP  the serving adapters: the Go handlers and the Laravel        *)
(*            endpoints, from the request to the response.                 *)
(*  SpecStore the stored page results under UpdateBlock and DeleteBlock.   *)
(*  SpecEditors two such edits served at once, read and write interleaved. *)
(*  SpecFiles the output directory under the storage, page and block       *)
(*            services and the process-image handler.                      *)
(*  SpecTemplates the template services on the same directory.             *)
(*                                                                         *)
(* The merger, the classifier and the hierarchy builder live in the Python *)
(* services of the repository (merging.py and friends); the Go sources     *)
(* only call them, so those three are modelled from the design document.   *)
(***************************************************************************)
EXTENDS Integers, Sequences, FiniteSets, TLC

VARIABLES
    \* ---- Go page pipeline ------------------------------------------------
    kind,        \* "image" (POST /api/process-image) or "pdf" (process-pdf)
    options,     \* models.OCROptions handed to the service
    engine,      \* what gosseract answers for the uploaded image
    imageRes,    \* (result, err) of ExtractBlocks.Execute, or NotRun
    doc,         \* the PDF: whether it opens, and what each page renders/OCRs to
    pdfPc,       \* position inside ProcessPDF.Execute
    pageNum,     \* loop variable of ProcessPDF.Execute
    totalBlocks, \* running block count of ProcessPDF.Execute
    totalConfidence, \* running confidence sum of ProcessPDF.Execute
    pages,       \* page results collected so far
    pdfRes,      \* (result, err) of ProcessPDF.Execute, or NotRun
    ctx,         \* the caller's context: cancelled by now, cancelled at the call
    lateStages,  \* stages (page render + OCR) started with ctx cancelled
    \* ---- BlockMerger -----------------------------------------------------
    detections,  \* input of Merge
    thresholdPx, \* merge threshold of both runs
    mergePc,     \* "run1", "run2" or "done"
    out1,        \* outcome of Merge(detections, thresholdPx)
    out2,        \* outcome of Merge on the blocks of out1, same threshold
    \* ---- SectionClassifier -----------------------------------------------
    cBlocks,     \* input blocks of Classify (merger output)
    pageHeight,  \* page height handed to Classify (0: absent)
    classified,  \* outcome of Classify
    \* ---- HierarchyBuilder ------------------------------------------------
    tBlocks,     \* input blocks of BuildTree (merger output)
    hierarchy,   \* outcome of BuildTree
    \* ---- serving adapters --------------------------------------------------
    adapter,     \* "go", "main", "laravel" (or "idle")
    httpReq,     \* the request and what its collaborators will answer
    httpPc,      \* "received", "validated" or "done"
    validated,   \* the request after validation, or Nil
    serviceCalls,\* calls of the OCR service / the upstream OCR API
    serviceArgs, \* arguments of the last such call
    httpResp,    \* responses written, in order
    \* ---- stored results and block edits -----------------------------------
    store,       \* the directory of the stored request: metadata and page files
    prevStore,   \* the directory before the last edit
    lastEdit,    \* the last UpdateBlock/DeleteBlock call and its error
    editCount,   \* edits made so far
    firstStore,  \* the directory before the first edit
    prevEdit,    \* the edit before the last one
    lastGet,     \* the GetBlock call made since the last edit, and its answer
    \* ---- edits served at once ----------------------------------------------
    editors,     \* the calls in progress: position, page held in memory, error
    \* ---- the output directory ----------------------------------------------
    fsDirs,      \* names of the directories of the output directory
    fsFiles,     \* the files below it: path and content
    created,     \* ids returned by CreateRequest (by CreateTemplate)
    live,        \* templates created and not deleted since
    lastWrite,   \* the last call that writes, and its answer
    lastRead,    \* the call that reads made since, and its answer
    writeCount   \* calls that write made so far

pipeVars  == <<kind, options, engine, imageRes, doc, pdfPc, pageNum,
               totalBlocks, totalConfidence, pages, pdfRes>>
ctxVars   == <<ctx, lateStages>>
mergeVars == <<detections, thresholdPx, mergePc, out1, out2>>
classVars == <<cBlocks, pageHeight, classified>>
treeVars  == <<tBlocks, hierarchy>>
httpVars  == <<adapter, httpReq, httpPc, validated, serviceCalls, serviceArgs,
               httpResp>>
storeVars == <<store, prevStore, lastEdit, editCount, firstStore, prevEdit, lastGet>>
fileVars  == <<fsDirs, fsFiles, created, live, lastWrite, lastRead, writeCount>>
vars      == <<pipeVars, ctxVars, mergeVars, classVars, treeVars, httpVars,
               storeVars, editors, fileVars>>

Nil    == "nil"
\* The (result, err) pair of a call that has not returned yet.
NotRun == [err |-> "not-run", result |-> Nil]

\* ---------------------------------------------------------------------------
\* Small helpers
\* ---------------------------------------------------------------------------
Min2(a, b) == IF a <= b THEN a ELSE b
Max2(a, b) == IF a >= b THEN a ELSE b

\* All sequences over S of length 0..n.
SeqsUpTo(S, n) == UNION {[1..k -> S] : k \in 0..n}

RECURSIVE GCD(_, _)
GCD(a, b) == IF b = 0 THEN a ELSE GCD(b, a % b)

\* A float kept exactly, as the fraction num/den in lowest terms (den > 0).
Rat(n, d) ==
    LET g == GCD(IF n < 0 THEN -n ELSE n, d)
    IN  [num |-> n \div g, den |-> d \div g]
RatAdd(a, b) == Rat(a.num * b.den + b.num * a.den, a.den * b.den)
RatDivInt(a, k) == Rat(a.num, a.den * k)
RatMulInt(a, k) == Rat(a.num * k, a.den)

\* ===========================================================================
\* Go page pipeline: ExtractBlocks.Execute and ProcessPDF.Execute
\* ===========================================================================

\* Bounds of the pipeline inputs.
MaxBoxes == 3
MaxPages == 2

\* gosseract.BoundingBox values the engine may report (RIL_WORD level).
\* Confidence is Tesseract's 0..100 scale.
\* The pool holds a box without text and a box of width 0 with text.
WordBox(word, conf, x0, y0, x1, y1) ==
    [Word |-> word, Confidence |-> conf,
     Min |-> [X |-> x0, Y |-> y0], Max |-> [X |-> x1, Y |-> y1]]

BoxPool ==
    { WordBox("Hello", 90,  0,  0,  50, 20),
      WordBox("World", 80, 55,  0, 105, 20),
      WordBox("",       0, 110, 0, 110, 20),
      WordBox("x",     95,  0, 40,  30, 60),
      WordBox("i",     60, 120, 0, 120, 20) }

\* models.OCROptions as the handlers build it, plus merging switched off.
OptionsPool ==
    { [MergeBlocks |-> mb, MergeThreshold |-> 30,
       CreateSections |-> FALSE, BuildHierarchyTree |-> FALSE] : mb \in BOOLEAN }

\* What the engine does with one image: SetImage and GetBoundingBoxes may fail.
EngineOf(setOK, boxesOK, bxs) ==
    [setImageOK |-> setOK, boxesOK |-> boxesOK, boxes |-> bxs]

EnginePool ==
    { EngineOf(TRUE, TRUE, bxs) : bxs \in SeqsUpTo(BoxPool, MaxBoxes) }
    \cup { EngineOf(FALSE, TRUE, <<>>), EngineOf(TRUE, FALSE, <<>>) }

\* Pages a PDF may hold: each renders (or not) and then goes through the engine.
PageBoxes ==
    { <<>>,
      <<WordBox("Hello", 90, 0, 0, 50, 20)>>,
      <<WordBox("", 0, 110, 0, 110, 20), WordBox("x", 95, 0, 40, 30, 60)>>,
      <<WordBox("Hello", 90, 0, 0, 50, 20), WordBox("", 0, 110, 0, 110, 20),
        WordBox("World", 80, 55, 0, 105, 20)>>,
      <<WordBox("i", 60, 120, 0, 120, 20)>> }

PagePool ==
    { [renderOK |-> TRUE, engine |-> EngineOf(TRUE, TRUE, bxs)] : bxs \in PageBoxes }
    \cup { [renderOK |-> FALSE, engine |-> EngineOf(TRUE, TRUE, <<>>)],
           [renderOK |-> TRUE,  engine |-> EngineOf(TRUE, FALSE, <<>>)] }

DocPool ==
    { [openOK |-> TRUE, pages |-> ps] : ps \in SeqsUpTo(PagePool, MaxPages) }
    \cup { [openOK |-> FALSE, pages |-> <<>>] }

\* models.BlockInfo built from the i-th box (i is the Go loop index, from 0).
\* The mutant numbers every block with the same id.
BlockInfoOfSameID(i, box) ==
    [ID |-> 0,
     Text |-> box.Word,
     Confidence |-> Rat(box.Confidence, 100),
     BBox |-> [X |-> box.Min.X, Y |-> box.Min.Y,
               Width |-> box.Max.X - box.Min.X,
               Height |-> box.Max.Y - box.Min.Y],
     BlockType |-> "text"]

BlockInfoOf(i, box) ==
    [ID |-> i,
     Text |-> box.Word,
     Confidence |-> Rat(box.Confidence, 100),
     BBox |-> [X |-> box.Min.X, Y |-> box.Min.Y,
               Width |-> box.Max.X - box.Min.X,
               Height |-> box.Max.Y - box.Min.Y],
     BlockType |-> "text"]

\* The conversion loop of ExtractBlocks.Execute: boxes with an empty word are
\* skipped, every other box becomes a block whose id is its index in boxes.
RECURSIVE ConvertKeepEmptyFrom(_, _)
ConvertKeepEmptyFrom(bxs, i) ==
    IF i > Len(bxs) THEN <<>>
    ELSE <<BlockInfoOf(i - 1, bxs[i])>> \o ConvertKeepEmptyFrom(bxs, i + 1)

ConvertKeepEmpty(bxs) == ConvertKeepEmptyFrom(bxs, 1)

\* The mutant leaves the loop at the first empty word.
RECURSIVE ConvertStopAtEmptyFrom(_, _)
ConvertStopAtEmptyFrom(bxs, i) ==
    IF i > Len(bxs) THEN <<>>
    ELSE IF bxs[i].Word = "" THEN <<>>
    ELSE <<BlockInfoOf(i - 1, bxs[i])>> \o ConvertStopAtEmptyFrom(bxs, i + 1)

ConvertStopAtEmpty(bxs) == ConvertStopAtEmptyFrom(bxs, 1)

RECURSIVE ConvertFrom(_, _)
ConvertFrom(bxs, i) ==
    IF i > Len(bxs) THEN <<>>
    ELSE IF bxs[i].Word = "" THEN ConvertFrom(bxs, i + 1)
    ELSE <<BlockInfoOf(i - 1, bxs[i])>> \o ConvertFrom(bxs, i + 1)

ConvertBoxes(bxs) == ConvertFrom(bxs, 1)

\* Average confidence: 0.0 for no blocks, else the mean.
RECURSIVE SumConfidence(_)
SumConfidence(blocks) ==
    IF blocks = <<>> THEN Rat(0, 1)
    ELSE RatAdd(blocks[1].Confidence, SumConfidence(Tail(blocks)))

AverageConfidence(blocks) ==
    IF Len(blocks) > 0 THEN RatDivInt(SumConfidence(blocks), Len(blocks))
    ELSE Rat(0, 1)

OCRResultOf(blocks) ==
    [RequestID |-> "",
     TotalBlocks |-> Len(blocks),
     AverageConf |-> AverageConfidence(blocks),
     Blocks |-> blocks,
     Sections |-> <<>>,
     HierarchyTree |-> <<>>]

Failure(msg) == [err |-> msg, result |-> Nil]
Success(res) == [err |-> Nil, result |-> res]

\* The mutant treats a page without text as a failure.
ExtractBlocksExecuteRejectEmpty(eng, opts) ==
    IF ~eng.setImageOK THEN Failure("failed to set image")
    ELSE IF ~eng.boxesOK THEN Failure("failed to get bounding boxes")
    ELSE IF ConvertBoxes(eng.boxes) = <<>> THEN Failure("no text found")
    ELSE Success(OCRResultOf(ConvertBoxes(eng.boxes)))

\* ExtractBlocks.Execute. The options only select the language: MergeBlocks and
\* MergeThreshold are not read.
ExtractBlocksExecute(eng, opts) ==
    IF ~eng.setImageOK THEN Failure("failed to set image")
    ELSE IF ~eng.boxesOK THEN Failure("failed to get bounding boxes")
    ELSE Success(OCRResultOf(ConvertBoxes(eng.boxes)))

\* The mutant keeps the ids the page came with.
RenumberBlocksKeepingIDs(blocks, base) == blocks

\* "Update block IDs to be globally unique" of ProcessPDF.Execute.
RenumberBlocks(blocks, base) ==
    [i \in 1..Len(blocks) |-> [blocks[i] EXCEPT !.ID = base + (i - 1)]]

PDFResultOf(pageCount, total, conf, ps) ==
    [RequestID |-> "",
     TotalPages |-> pageCount,
     TotalBlocks |-> total,
     AverageConf |-> IF pageCount > 0 THEN RatDivInt(conf, pageCount) ELSE Rat(0, 1),
     Pages |-> ps]

PipeIdle ==
    /\ kind = "idle"
    /\ options = Nil
    /\ engine = Nil
    /\ imageRes = NotRun
    /\ doc = Nil
    /\ pdfPc = "idle"
    /\ pageNum = 0
    /\ totalBlocks = 0
    /\ totalConfidence = Rat(0, 1)
    /\ pages = <<>>
    /\ pdfRes = NotRun

PipeInit ==
    /\ options \in OptionsPool
    /\ imageRes = NotRun
    /\ pageNum = 0
    /\ totalBlocks = 0
    /\ totalConfidence = Rat(0, 1)
    /\ pages = <<>>
    /\ pdfRes = NotRun
    /\ \/ /\ kind = "image"
          /\ engine \in EnginePool
          /\ doc = Nil
          /\ pdfPc = "idle"
       \/ /\ kind = "pdf"
          /\ engine = Nil
          /\ doc \in DocPool
          /\ pdfPc = "open"

\* POST /api/process-image: ocrService.Execute on the uploaded image.
ProcessImage ==
    /\ kind = "image"
    /\ imageRes = NotRun
    /\ imageRes' = ExtractBlocksExecute(engine, options)
    /\ UNCHANGED <<kind, options, engine, doc, pdfPc, pageNum, totalBlocks,
                   totalConfidence, pages, pdfRes>>

\* ProcessPDF.Execute up to the page loop: open the document, count the pages.
PDFOpen ==
    /\ kind = "pdf"
    /\ pdfPc = "open"
    /\ IF ~doc.openOK
         THEN /\ pdfRes' = Failure("failed to open PDF")
              /\ pdfPc' = "done"
         ELSE IF Len(doc.pages) = 0
         THEN /\ pdfRes' = Failure("PDF has no pages")
              /\ pdfPc' = "done"
         ELSE /\ pdfRes' = pdfRes
              /\ pdfPc' = "loop"
    /\ UNCHANGED <<kind, options, engine, imageRes, doc, pageNum, totalBlocks,
                   totalConfidence, pages>>

\* One iteration of the page loop: render, OCR, renumber, accumulate.
PDFPage ==
    /\ kind = "pdf"
    /\ pdfPc = "loop"
    /\ pageNum < Len(doc.pages)
    /\ LET page == doc.pages[pageNum + 1]
           r    == ExtractBlocksExecute(page.engine, options)
       IN  IF ~page.renderOK
             THEN /\ pdfRes' = Failure("failed to render page")
                  /\ pdfPc' = "done"
                  /\ UNCHANGED <<pageNum, totalBlocks, totalConfidence, pages>>
             ELSE IF r.err # Nil
             THEN /\ pdfRes' = Failure("failed to OCR page")
                  /\ pdfPc' = "done"
                  /\ UNCHANGED <<pageNum, totalBlocks, totalConfidence, pages>>
             ELSE /\ pages' = Append(pages,
                        [r.result EXCEPT
                            !.Blocks = RenumberBlocks(r.result.Blocks, totalBlocks)])
                  /\ totalBlocks' = totalBlocks + r.result.TotalBlocks
                  /\ totalConfidence' = RatAdd(totalConfidence, r.result.AverageConf)
                  /\ pageNum' = pageNum + 1
                  /\ UNCHANGED <<pdfRes, pdfPc>>
    /\ UNCHANGED <<kind, options, engine, imageRes, doc>>

\* After the last page: build the PDFResult.
PDFReturn ==
    /\ kind = "pdf"
    /\ pdfPc = "loop"
    /\ pageNum = Len(doc.pages)
    /\ pdfRes' = Success(PDFResultOf(Len(doc.pages), totalBlocks, totalConfidence, pages))
    /\ pdfPc' = "done"
    /\ UNCHANGED <<kind, options, engine, imageRes, doc, pageNum, totalBlocks,
                   totalConfidence, pages>>

\* ---- the caller's context ------------------------------------------------------
\* r.Context() of the request; the caller may cancel it, or its deadline may
\* pass, before the call or at any moment until the operation returns.
ContextOf(done) == [done |-> done, atStart |-> done]

CtxInit ==
    /\ ctx \in { ContextOf(d) : d \in BOOLEAN }
    /\ lateStages = 0

CtxIdle ==
    /\ ctx = ContextOf(FALSE)
    /\ lateStages = 0

OperationRunning ==
    \/ kind = "image" /\ imageRes.err = "not-run"
    \/ kind = "pdf" /\ pdfPc # "done"

CancelContext ==
    /\ OperationRunning
    /\ ~ctx.done
    /\ ctx' = [ctx EXCEPT !.done = TRUE]
    /\ UNCHANGED lateStages

\* ExtractBlocks.Execute and the page loop of ProcessPDF.Execute take ctx and
\* never read it: a stage starts whatever the state of the context.
StageStarts ==
    /\ lateStages' = lateStages + (IF ctx.done THEN 1 ELSE 0)
    /\ UNCHANGED ctx

\* ===========================================================================
\* BlockMerger.Merge (design document, section 4.1)
\* ===========================================================================

\* Bound of the merger inputs: detections per page.
MaxDet == 7

\* Iteration cap of the repeated passes ("e.g. 5 passes").
MaxPasses == 5

\* Score threshold of the horizontal alignment test, in tenths (0.8).
AlignTenths == 8

BBoxOf(x, y, w, h) == [x |-> x, y |-> y, width |-> w, height |-> h]

Right(b)  == b.x + b.width
Bottom(b) == b.y + b.height

\* Minimal rectangle enclosing both.
Enclose(a, b) ==
    LET x == Min2(a.x, b.x)
        y == Min2(a.y, b.y)
    IN  BBoxOf(x, y, Max2(Right(a), Right(b)) - x, Max2(Bottom(a), Bottom(b)) - y)

\* (a) the vertical bands overlap or are separated by at most t pixels.
VerticalNear(a, b, t) ==
    Max2(a.y, b.y) - Min2(Bottom(a), Bottom(b)) <= t

\* Overlapping horizontal extent, 0 when the extents are disjoint.
HorizontalOverlap(a, b) ==
    Max2(0, Min2(Right(a), Right(b)) - Max2(a.x, b.x))

\* (b) alignment score = overlap / shorter width >= 0.8.
Aligned(a, b) ==
    10 * HorizontalOverlap(a, b) >= AlignTenths * Min2(a.width, b.width)

MergeCandidates(a, b, t) == VerticalNear(a.bbox, b.bbox, t) /\ Aligned(a.bbox, b.bbox)

\* Length-weighted average of the two confidences.
WeightedConfidence(a, b) ==
    RatDivInt(RatAdd(RatMulInt(a.confidence, Len(a.text)),
                     RatMulInt(b.confidence, Len(b.text))),
              Len(a.text) + Len(b.text))

\* The merged block: enclosing bbox, texts joined by one space. A text is the
\* sequence of its characters.
MergeTwo(a, b) ==
    [text |-> a.text \o <<" ">> \o b.text,
     confidence |-> WeightedConfidence(a, b),
     bbox |-> Enclose(a.bbox, b.bbox)]

\* Confidence outside [0,1] is clamped.
Clamp01(c) ==
    IF c.num < 0 THEN Rat(0, 1) ELSE IF c.num > c.den THEN Rat(1, 1) ELSE c

ValidGeometry(d) == d.bbox.width > 0 /\ d.bbox.height > 0

\* Reading order: (y, x) ascending.
Before(a, b) ==
    \/ a.bbox.y < b.bbox.y
    \/ a.bbox.y = b.bbox.y /\ a.bbox.x < b.bbox.x

\* Stable insertion sort by (y, x).
RECURSIVE InsertByYX(_, _)
InsertByYX(sorted, d) ==
    IF sorted = <<>> THEN <<d>>
    ELSE IF Before(d, sorted[1]) THEN <<d>> \o sorted
    ELSE <<sorted[1]>> \o InsertByYX(Tail(sorted), d)

RECURSIVE SortByYX(_)
SortByYX(ds) ==
    IF ds = <<>> THEN <<>>
    ELSE InsertByYX(SortByYX(SubSeq(ds, 1, Len(ds) - 1)), ds[Len(ds)])

\* What Merge works on: invalid geometry dropped, confidence clamped.
Prepare(ds) ==
    LET kept == SelectSeq(ds, ValidGeometry)
    IN  [i \in 1..Len(kept) |->
            [text |-> kept[i].text,
             confidence |-> Clamp01(kept[i].confidence),
             bbox |-> kept[i].bbox]]

\* One scan over the sorted candidate set: the block in hand absorbs the next
\* one while the two are merge candidates, otherwise it is emitted and the
\* next one is taken in hand.
RECURSIVE Scan(_, _, _, _)
Scan(cur, rest, acc, t) ==
    IF rest = <<>> THEN Append(acc, cur)
    ELSE IF MergeCandidates(cur, rest[1], t)
         THEN Scan(MergeTwo(cur, rest[1]), Tail(rest), acc, t)
         ELSE Scan(rest[1], Tail(rest), Append(acc, cur), t)

MergePass(ws, t) ==
    LET sorted == SortByYX(ws)
    IN  IF sorted = <<>> THEN <<>> ELSE Scan(sorted[1], Tail(sorted), <<>>, t)

\* Repeated passes until a pass merges nothing or the cap is reached.
RECURSIVE MergeLoop(_, _, _)
MergeLoop(ws, t, done) ==
    IF done >= MaxPasses THEN [blocks |-> ws, passes |-> done, lastMerges |-> 1]
    ELSE LET next == MergePass(ws, t)
         IN  IF Len(next) = Len(ws)
               THEN [blocks |-> next, passes |-> done + 1, lastMerges |-> 0]
               ELSE IF done + 1 >= MaxPasses
                 THEN [blocks |-> next, passes |-> done + 1,
                       lastMerges |-> Len(ws) - Len(next)]
                 ELSE MergeLoop(next, t, done + 1)

\* Fresh sequential ids in final reading order.
AssignIDs(ws) ==
    LET sorted == SortByYX(ws)
    IN  [i \in 1..Len(sorted) |->
            [id |-> i - 1,
             text |-> sorted[i].text,
             confidence |-> sorted[i].confidence,
             bbox |-> sorted[i].bbox,
             block_type |-> "other"]]

\* Merge(detections, thresholdPx), with the number of passes it took and the
\* number of merges of its last pass.
Merge(ds, t) ==
    LET r == MergeLoop(Prepare(ds), t, 0)
    IN  [blocks |-> AssignIDs(r.blocks), passes |-> r.passes,
         lastMerges |-> r.lastMerges, ran |-> TRUE]

NoMerge == [blocks |-> <<>>, passes |-> 0, lastMerges |-> 0, ran |-> FALSE]

\* ---- inputs of the merger --------------------------------------------------
\* Horizontal shapes of a text line: two narrow columns, a full-width line.
LineShapes ==
    { [x |-> 0,  width |-> 10,  confidence |-> Rat(90, 100),  wide |-> FALSE],
      [x |-> 50, width |-> 10,  confidence |-> Rat(50, 100),  wide |-> FALSE],
      [x |-> 0,  width |-> 100, confidence |-> Rat(120, 100), wide |-> TRUE] }

\* A detection without width (invalid geometry).
FlatShape == [x |-> 20, width |-> 0, confidence |-> Rat(70, 100), wide |-> FALSE]

Letters == <<"a", "b", "c", "d", "e", "f", "g", "h", "i">>

Layouts == {"stacked", "reversed", "pairs"}
Thresholds == {5, 30}

\* Row of the k-th line: one line per row, or two lines per row.
RowOf(k, layout) == IF layout = "pairs" THEN (k + 1) \div 2 ELSE k

\* Lines are 12 pixels high on a pitch of 20 pixels.
DetectionAt(k, shape, layout) ==
    [text |-> IF shape.wide THEN <<Letters[k], Letters[k]>> ELSE <<Letters[k]>>,
     confidence |-> shape.confidence,
     bbox |-> BBoxOf(shape.x, 20 * RowOf(k, layout), shape.width, 12)]

Reverse(seq) == [i \in 1..Len(seq) |-> seq[Len(seq) + 1 - i]]

\* The detections of a page, in the order the engine reports them.
PageDetections(shapes, layout) ==
    LET ds == [k \in 1..Len(shapes) |-> DetectionAt(k, shapes[k], layout)]
    IN  IF layout = "reversed" THEN Reverse(ds) ELSE ds

ShapeSeqs ==
    UNION { { sh \in [1..n -> LineShapes \cup {FlatShape}] :
                \A k \in 2..n : sh[k] \in LineShapes } : n \in 0..MaxDet }

MergeInit ==
    /\ \E sh \in ShapeSeqs, layout \in Layouts :
          detections = PageDetections(sh, layout)
    /\ thresholdPx \in Thresholds
    /\ mergePc = "run1"
    /\ out1 = NoMerge
    /\ out2 = NoMerge

\* Merge(detections, thresholdPx).
RunMerge ==
    /\ mergePc = "run1"
    /\ out1' = Merge(detections, thresholdPx)
    /\ mergePc' = "run2"
    /\ UNCHANGED <<detections, thresholdPx, out2>>

\* Merge on its own output, same threshold.
RerunMerge ==
    /\ mergePc = "run2"
    /\ out2' = Merge(out1.blocks, thresholdPx)
    /\ mergePc' = "done"
    /\ UNCHANGED <<detections, thresholdPx, out1>>

\* ===========================================================================
\* SectionClassifier.Classify (design document, section 4.2)
\* ===========================================================================

\* Bound of the classifier inputs: blocks per page.
MaxClassBlocks == 3

\* Header and footer bands, in percent of the page height (15% / 85%).
HeaderPercent == 15
FooterPercent == 85

\* Tolerance of the column alignment test of the table heuristic, in pixels.
ColumnTol == 2

RECURSIVE MaxBottom(_)
MaxBottom(blocks) ==
    IF blocks = <<>> THEN 0
    ELSE Max2(Bottom(blocks[1].bbox), MaxBottom(Tail(blocks)))

\* The page height Classify works with: computed when absent.
EffectiveHeight(blocks, h) == IF h = 0 THEN MaxBottom(blocks) ELSE h

\* The mutant tests the footer band first.
SectionTypeOfFooterFirst(block, h) ==
    IF 100 * Bottom(block.bbox) > FooterPercent * h THEN "footer"
    ELSE IF 100 * block.bbox.y < HeaderPercent * h THEN "header"
    ELSE "body"

\* Position pass: header, else footer, else body.
SectionTypeOf(block, h) ==
    IF 100 * block.bbox.y < HeaderPercent * h THEN "header"
    ELSE IF 100 * Bottom(block.bbox) > FooterPercent * h THEN "footer"
    ELSE "body"

\* The mutant tests header and footer independently of each other.
InSectionIndependent(block, type, h) ==
    CASE type = "header" -> 100 * block.bbox.y < HeaderPercent * h
      [] type = "footer" -> 100 * Bottom(block.bbox) > FooterPercent * h
      [] OTHER -> /\ ~(100 * block.bbox.y < HeaderPercent * h)
                  /\ ~(100 * Bottom(block.bbox) > FooterPercent * h)

InSection(block, type, h) == SectionTypeOf(block, h) = type

\* ---- pattern pass ---------------------------------------------------------
IsSpace(c) == c \in {" ", "\t"}
IsDigit(c) == c \in {"0", "1", "2", "3", "4", "5", "6", "7", "8", "9"}
\* "bullet" stands for the glyph U+2022.
IsBullet(c) == c \in {"bullet", "-", "*"}

\* Number of leading digits.
RECURSIVE LeadingDigits(_)
LeadingDigits(text) ==
    IF text # <<>> /\ IsDigit(text[1]) THEN 1 + LeadingDigits(Tail(text)) ELSE 0

\* A bullet glyph, or <digits>. / <digits>), followed by whitespace.
LooksLikeListItem(text) ==
    \/ Len(text) >= 2 /\ IsBullet(text[1]) /\ IsSpace(text[2])
    \/ LET n == LeadingDigits(text)
       IN  /\ n >= 1
           /\ Len(text) >= n + 2
           /\ text[n + 1] \in {".", ")"}
           /\ IsSpace(text[n + 2])

\* A column separator: "|", or consecutive tab characters.
HasColumnSeparator(text) ==
    \/ \E i \in 1..Len(text) : text[i] = "|"
    \/ \E i \in 1..(Len(text) - 1) : text[i] = "\t" /\ text[i + 1] = "\t"

Abs(n) == IF n < 0 THEN -n ELSE n
Area(b) == b.width * b.height

\* Aligned in x with at least two other body blocks.
InAlignedColumn(block, body) ==
    Cardinality({ i \in 1..Len(body) :
                    /\ body[i].id # block.id
                    /\ Abs(body[i].bbox.x - block.bbox.x) <= ColumnTol }) >= 2

LooksLikeTable(block, body) ==
    HasColumnSeparator(block.text) \/ InAlignedColumn(block, body)

\* Area in the top quartile of the body-block areas.
InTopAreaQuartile(block, body) ==
    4 * Cardinality({ i \in 1..Len(body) :
                        Area(body[i].bbox) > Area(block.bbox) }) < Len(body)

\* The k-th smallest text length among the body blocks.
KthLength(body, k) ==
    CHOOSE v \in {Len(body[i].text) : i \in 1..Len(body)} :
        /\ Cardinality({i \in 1..Len(body) : Len(body[i].text) < v}) < k
        /\ Cardinality({i \in 1..Len(body) : Len(body[i].text) <= v}) >= k

\* Text shorter than the median body-block text length.
ShorterThanMedian(block, body) ==
    LET n == Len(body)
    IN  IF n % 2 = 1
          THEN Len(block.text) < KthLength(body, (n + 1) \div 2)
          ELSE 2 * Len(block.text)
                 < KthLength(body, n \div 2) + KthLength(body, n \div 2 + 1)

LooksLikeTitle(block, body) ==
    /\ InTopAreaQuartile(block, body)
    /\ ShorterThanMedian(block, body)
    /\ body[1].id = block.id

\* The resolved block_type: the position decides for header and footer, the
\* patterns decide inside the body.
BlockTypeOf(block, body, h) ==
    IF SectionTypeOf(block, h) # "body" THEN SectionTypeOf(block, h)
    ELSE IF LooksLikeListItem(block.text) THEN "list_item"
    ELSE IF LooksLikeTable(block, body) THEN "table"
    ELSE IF LooksLikeTitle(block, body) THEN "title"
    ELSE "paragraph"

SectionTypes == <<"header", "body", "footer">>
BlockTypes == {"title", "paragraph", "table", "list_item", "header", "footer", "other"}

RECURSIVE BlockIDs(_)
BlockIDs(blocks) ==
    IF blocks = <<>> THEN <<>> ELSE <<blocks[1].id>> \o BlockIDs(Tail(blocks))

\* The blocks of one section type, in reading order.
RECURSIVE SectionMembers(_, _, _)
SectionMembers(blocks, type, h) ==
    IF blocks = <<>> THEN <<>>
    ELSE (IF InSection(blocks[1], type, h) THEN <<blocks[1]>> ELSE <<>>)
         \o SectionMembers(Tail(blocks), type, h)

\* One section per section type that has blocks.
RECURSIVE BuildSections(_, _, _)
BuildSections(blocks, h, k) ==
    IF k > Len(SectionTypes) THEN <<>>
    ELSE LET members == SectionMembers(blocks, SectionTypes[k], h)
         IN  (IF members = <<>> THEN <<>>
              ELSE <<[id |-> SectionTypes[k], type |-> SectionTypes[k],
                      block_ids |-> BlockIDs(members)]>>)
             \o BuildSections(blocks, h, k + 1)

\* Classify(blocks, pageHeight).
Classify(blocks, ph) ==
    LET h       == EffectiveHeight(blocks, ph)
        body    == SectionMembers(blocks, "body", h)
        updated == [i \in 1..Len(blocks) |->
                       [blocks[i] EXCEPT !.block_type = BlockTypeOf(blocks[i], body, h)]]
    IN  [blocks |-> updated,
         sections |-> BuildSections(blocks, h, 1),
         summary |-> [t \in BlockTypes |->
                         Cardinality({i \in 1..Len(updated) : updated[i].block_type = t})],
         height |-> h,
         ran |-> TRUE]

NoClassify ==
    [blocks |-> <<>>, sections |-> <<>>, summary |-> [t \in BlockTypes |-> 0],
     height |-> 0, ran |-> FALSE]

\* ---- inputs of the classifier ----------------------------------------------
TextBlock(text, x, y, w, h) ==
    [text |-> text, confidence |-> Rat(9, 10), bbox |-> BBoxOf(x, y, w, h)]

\* Blocks of a page 100 pixels high: one in the header band, one that passes
\* the header test and the footer test, body blocks on both band borders,
\* list items, a table row, a footer block and a list item in the footer band.
ClassPool ==
    { TextBlock(<<"T">>,                 0, 10, 100, 20),
      TextBlock(<<"x", " ", "y">>,       0, 14,  60, 80),
      TextBlock(<<"-", " ", "A">>,       0, 15,  40, 10),
      TextBlock(<<"bullet", " ", "B">>,  0, 40,  40, 10),
      TextBlock(<<"1", ".", " ", "c">>, 30, 55,  40, 10),
      TextBlock(<<"a", "|", "b">>,       0, 75,  40, 10),
      TextBlock(<<"p">>,                 0, 80, 100, 10),
      TextBlock(<<"*", " ", "z">>,       0, 88,  40, 10) }

PageHeights == {0, 100, 1000}

\* A set of blocks as a sequence (any order; the merger sorts).
RECURSIVE SetToSeq(_)
SetToSeq(S) ==
    IF S = {} THEN <<>>
    ELSE LET e == CHOOSE e \in S : TRUE IN <<e>> \o SetToSeq(S \ {e})

\* Merger output with the given blocks: reading order, sequential ids.
MergedBlocksOf(S) == AssignIDs(SetToSeq(S))

ClassInit ==
    /\ \E S \in SUBSET ClassPool :
          /\ Cardinality(S) <= MaxClassBlocks
          /\ cBlocks = MergedBlocksOf(S)
    /\ pageHeight \in PageHeights
    /\ pageHeight = 0 \/ pageHeight >= MaxBottom(cBlocks)
    /\ classified = NoClassify

\* Classify(cBlocks, pageHeight).
RunClassify ==
    /\ ~classified.ran
    /\ classified' = Classify(cBlocks, pageHeight)
    /\ UNCHANGED <<cBlocks, pageHeight>>

\* ===========================================================================
\* HierarchyBuilder.BuildTree (design document, section 4.3)
\* ===========================================================================

\* Bound of the hierarchy inputs: blocks per page.
MaxTreeBlocks == 3

\* Containment tolerance in pixels.
ContainTol == 2

\* parent_id of a root (null).
NoParent == -1

\* a contains b, with the tolerance on all four edges.
Contains(a, b) ==
    /\ a.x - ContainTol <= b.x
    /\ a.y - ContainTol <= b.y
    /\ Right(a) + ContainTol >= Right(b)
    /\ Bottom(a) + ContainTol >= Bottom(b)

\* A is a containment candidate for B. Degenerate geometry guard: of two blocks
\* that contain each other only the one with the lower id is a candidate
\* parent, of the other one.
IsCandidate(A, B) ==
    /\ A.id # B.id
    /\ Contains(A.bbox, B.bbox)
    /\ ~(Contains(B.bbox, A.bbox) /\ B.id < A.id)

CandidatesOf(blocks, B) == { i \in 1..Len(blocks) : IsCandidate(blocks[i], B) }

\* The mutant takes the widest enclosing box.
ParentOfLargest(blocks, B) ==
    LET cs == CandidatesOf(blocks, B)
    IN  IF cs = {} THEN NoParent
        ELSE blocks[CHOOSE i \in cs : \A j \in cs :
                       \/ Area(blocks[i].bbox) > Area(blocks[j].bbox)
                       \/ /\ Area(blocks[i].bbox) = Area(blocks[j].bbox)
                          /\ blocks[i].id <= blocks[j].id].id

\* The direct parent: the candidate of smallest area (lowest id among equals),
\* none for a block without candidate.
ParentOf(blocks, B) ==
    LET cs == CandidatesOf(blocks, B)
    IN  IF cs = {} THEN NoParent
        ELSE blocks[CHOOSE i \in cs : \A j \in cs :
                       \/ Area(blocks[i].bbox) < Area(blocks[j].bbox)
                       \/ /\ Area(blocks[i].bbox) = Area(blocks[j].bbox)
                          /\ blocks[i].id <= blocks[j].id].id

IDSet(blocks) == { blocks[i].id : i \in 1..Len(blocks) }

ParentMap(blocks) ==
    [b \in IDSet(blocks) |->
        ParentOf(blocks, blocks[CHOOSE i \in 1..Len(blocks) : blocks[i].id = b])]

\* The mutant also lists the children of the children.
ChildrenOfWithGrandchildren(parent, a) ==
    { b \in DOMAIN parent :
        \/ parent[b] = a
        \/ parent[b] # NoParent /\ parent[parent[b]] = a }

ChildrenOf(parent, a) == { b \in DOMAIN parent : parent[b] = a }

\* Depth, top-down by breadth-first traversal from the roots. A node the
\* traversal does not reach keeps the depth it was created with, 0.
RECURSIVE Traverse(_, _, _, _)
Traverse(parent, level, d, depth) ==
    IF level = {} THEN depth
    ELSE Traverse(parent,
                  { b \in DOMAIN parent : parent[b] \in level },
                  d + 1,
                  [b \in DOMAIN parent |-> IF b \in level THEN d ELSE depth[b]])

DepthMap(parent) ==
    Traverse(parent, { b \in DOMAIN parent : parent[b] = NoParent }, 0,
             [b \in DOMAIN parent |-> 0])

MaxOf(S) == IF S = {} THEN 0 ELSE CHOOSE m \in S : \A e \in S : e <= m

RECURSIVE SumOver(_, _)
SumOver(f, S) ==
    IF S = {} THEN 0
    ELSE LET e == CHOOSE e \in S : TRUE IN f[e] + SumOver(f, S \ {e})

HierarchyStats(nodeMap) ==
    LET ids     == DOMAIN nodeMap
        inner   == { b \in ids : nodeMap[b].children # {} }
        fanout  == [b \in ids |-> Cardinality(nodeMap[b].children)]
        depths  == { nodeMap[b].depth : b \in ids }
    IN  [total_blocks |-> Cardinality(ids),
         root_blocks |-> Cardinality({ b \in ids : nodeMap[b].parent_id = NoParent }),
         max_depth |-> MaxOf(depths),
         avg_children |-> IF inner = {} THEN Rat(0, 1)
                          ELSE Rat(SumOver(fanout, inner), Cardinality(inner)),
         blocks_by_level |-> [d \in depths |->
                                Cardinality({ b \in ids : nodeMap[b].depth = d })]]

\* BuildTree(blocks).
BuildTree(blocks) ==
    LET parent  == ParentMap(blocks)
        depth   == DepthMap(parent)
        nodeMap == [b \in DOMAIN parent |->
                      [block_id |-> b,
                       parent_id |-> parent[b],
                       children |-> ChildrenOf(parent, b),
                       depth |-> depth[b]]]
    IN  [nodes |-> nodeMap, stats |-> HierarchyStats(nodeMap), ran |-> TRUE]

NoTree == [nodes |-> <<>>, stats |-> HierarchyStats(<<>>), ran |-> FALSE]

\* ---- inputs of the hierarchy builder -----------------------------------------
\* A page frame with a box in it, a second box within the tolerance of the
\* first, a box inside both, and three boxes that overlap almost completely.
TreePool ==
    { TextBlock(<<"A">>,  0,  0, 200, 200),
      TextBlock(<<"B">>, 10, 10,  50,  50),
      TextBlock(<<"b">>, 11, 11,  50,  50),
      TextBlock(<<"c">>, 20, 20,  10,  10),
      TextBlock(<<"u">>,  0,  3,  12,  17),
      TextBlock(<<"v">>,  3,  1,  11,  19),
      TextBlock(<<"w">>,  1,  0,   9,  20) }

TreeInit ==
    /\ \E bs \in SeqsUpTo(TreePool, MaxTreeBlocks) : tBlocks = AssignIDs(bs)
    /\ hierarchy = NoTree

\* BuildTree(tBlocks).
RunBuildTree ==
    /\ ~hierarchy.ran
    /\ hierarchy' = BuildTree(tBlocks)
    /\ UNCHANGED tBlocks

\* ===========================================================================
\* Serving adapters: the Go handlers and the Laravel endpoints
\* ===========================================================================

\* net/http status codes the handlers write, and Laravel's validation status.
StatusOK == 200
StatusBadRequest == 400
StatusUnprocessable == 422
StatusInternalServerError == 500

\* A field of a request body: present with a value, or omitted.
Omitted(zero) == [present |-> FALSE, value |-> zero]
Given(v) == [present |-> TRUE, value |-> v]

\* merge_threshold values a caller may send (the valid range is 1..100).
ThresholdPool == {-5, 0, 1, 30, 100, 101, 200}

OptBool == {Omitted(FALSE)} \cup { Given(b) : b \in BOOLEAN }
OptThreshold == {Omitted(0)} \cup { Given(t) : t \in ThresholdPool }

\* confidence_threshold, in tenths.
OptConfidence == {Omitted(0), Given(7)}

\* What a response writer has written.
ResponseOf(status, hasSuccess, success, message) ==
    [status |-> status, hasSuccess |-> hasSuccess, success |-> success,
     message |-> message]

\* errorresponse.Write and successresponse.Write.
ErrorResponseWrite(statusCode, message) ==
    ResponseOf(statusCode, TRUE, FALSE, message)

SuccessResponseWrite ==
    ResponseOf(StatusOK, TRUE, TRUE, "request processed")

\* ---- Go: processimage.Handle ------------------------------------------------
\* POST /api/ocr/process-image with a JSON body; the service it calls succeeds
\* or fails.
GoRequestPool ==
    { [jsonOK |-> j, image_path |-> p, confidence_threshold |-> c,
       merge_blocks |-> mb, merge_threshold |-> mt, serviceOK |-> ok] :
        j \in BOOLEAN, p \in {"", "test_image.jpg"}, c \in OptConfidence,
        mb \in OptBool, mt \in OptThreshold, ok \in BOOLEAN }

\* json.Decode into ProcessImageRequest: an omitted field keeps its zero value.
DecodeProcessImageRequest(body) ==
    [ImagePath |-> body.image_path,
     ConfidenceThreshold |-> body.confidence_threshold.value,
     MergeBlocks |-> body.merge_blocks.value,
     MergeThreshold |-> body.merge_threshold.value]

\* The defaults of ValidateRequest: confidence_threshold 0.5, merge_threshold 30.
WithDefaults(req) ==
    [req EXCEPT !.ConfidenceThreshold = IF @ = 0 THEN 5 ELSE @,
                !.MergeThreshold = IF @ = 0 THEN 30 ELSE @]

\* The mutant does not require image_path.
ValidateRequestNoRequired(body) ==
    IF ~body.jsonOK THEN [err |-> "malformed request", req |-> Nil]
    ELSE [err |-> Nil, req |-> WithDefaults(DecodeProcessImageRequest(body))]

\* processimage.ValidateRequest: decode, require image_path, set the defaults.
ValidateRequest(body) ==
    IF ~body.jsonOK THEN [err |-> "malformed request", req |-> Nil]
    ELSE IF DecodeProcessImageRequest(body).ImagePath = ""
      THEN [err |-> "image_path is required", req |-> Nil]
      ELSE [err |-> Nil, req |-> WithDefaults(DecodeProcessImageRequest(body))]

\* ---- Go: POST /api/process-image of the server main --------------------------
\* A multipart upload; each step of the handler succeeds or fails.
MainRequestPool ==
    { [formOK |-> f, fileOK |-> fl, tmpOK |-> t, copyOK |-> c, serviceOK |-> ok] :
        f \in BOOLEAN, fl \in BOOLEAN, t \in BOOLEAN, c \in BOOLEAN, ok \in BOOLEAN }

\* The models.OCROptions literal of the handler.
MainOptions ==
    [MergeBlocks |-> TRUE, MergeThreshold |-> 30,
     CreateSections |-> FALSE, BuildHierarchyTree |-> FALSE]

\* json.NewEncoder(w).Encode(models.ErrorResponse{...}) after an optional
\* WriteHeader: without WriteHeader the status is 200.
MainErrorResponse(status, message) == ResponseOf(status, TRUE, FALSE, message)

\* ---- Laravel: /api/process-image and /api/process-pdf -------------------------
\* A multipart upload with optional flags; the Python OCR API answers with
\* success, with a failure status, or not at all.
LaravelRequestPool ==
    { [endpoint |-> e, file |-> f, merge_blocks |-> mb, merge_threshold |-> mt,
       upstream |-> u] :
        e \in {"process-image", "process-pdf"},
        f \in {"valid", "missing", "wrong-type"},
        mb \in OptBool, mt \in OptThreshold,
        u \in {"ok", "failure-status", "unreachable"} }

\* Request::rules: the fields that fail validation.
\*   file: required|file|mimes:...   merge_threshold: nullable|integer|min:1|max:100
Rules(body) ==
    (IF body.file # "valid" THEN {"file"} ELSE {})
    \cup (IF body.merge_threshold.present
             /\ (body.merge_threshold.value < 1 \/ body.merge_threshold.value > 100)
            THEN {"merge_threshold"} ELSE {})

\* Controller::__invoke: the arguments of Service::execute.
ControllerArgs(body) ==
    [file |-> body.file,
     merge_blocks |-> IF body.merge_blocks.present THEN body.merge_blocks.value
                      ELSE TRUE,
     merge_threshold |-> IF body.merge_threshold.present
                         THEN body.merge_threshold.value ELSE 30]

\* The mutant returns the body of the upstream answer whatever its status.
ServiceExecuteIgnoringStatus(upstream) ==
    IF upstream = "unreachable" THEN [thrown |-> TRUE] ELSE [thrown |-> FALSE]

\* Service::execute: post to the Python OCR API; a failed answer is thrown.
ServiceExecute(upstream) ==
    IF upstream = "ok" THEN [thrown |-> FALSE] ELSE [thrown |-> TRUE]

\* The responses of the framework: 422 with the failed fields, 500 for an
\* uncaught exception, and the Response envelope of the controller.
ValidationFailedResponse ==
    ResponseOf(StatusUnprocessable, FALSE, FALSE, "validation failed")
ServerErrorResponse ==
    ResponseOf(StatusInternalServerError, FALSE, FALSE, "Server Error")
ControllerResponse ==
    ResponseOf(StatusOK, TRUE, TRUE, "OCR completed")

\* ---- the request in flight ---------------------------------------------------
Unset == [unset |-> TRUE]

HttpInit ==
    /\ \/ adapter = "go" /\ httpReq \in GoRequestPool
       \/ adapter = "main" /\ httpReq \in MainRequestPool
       \/ adapter = "laravel" /\ httpReq \in LaravelRequestPool
    /\ httpPc = "received"
    /\ validated = Unset
    /\ serviceCalls = 0
    /\ serviceArgs = Unset
    /\ httpResp = <<>>

\* processimage.Handle, step 1: ValidateRequest; 400 when it fails.
GoValidate ==
    /\ adapter = "go"
    /\ httpPc = "received"
    /\ LET v == ValidateRequest(httpReq)
       IN  IF v.err # Nil
             THEN /\ httpResp' = Append(httpResp,
                                        ErrorResponseWrite(StatusBadRequest, v.err))
                  /\ httpPc' = "done"
                  /\ validated' = validated
             ELSE /\ validated' = v.req
                  /\ httpPc' = "validated"
                  /\ httpResp' = httpResp
    /\ UNCHANGED <<adapter, httpReq, serviceCalls, serviceArgs>>

\* processimage.Handle, steps 2 and 3: service.Execute(ImagePath,
\* ConfidenceThreshold, MergeBlocks); 500 when it fails, else the success
\* response.
GoServe ==
    /\ adapter = "go"
    /\ httpPc = "validated"
    /\ serviceCalls' = serviceCalls + 1
    /\ serviceArgs' = [image_path |-> validated.ImagePath,
                       confidence_threshold |-> validated.ConfidenceThreshold,
                       merge_blocks |-> validated.MergeBlocks]
    /\ httpResp' = Append(httpResp,
          IF httpReq.serviceOK THEN SuccessResponseWrite
          ELSE ErrorResponseWrite(StatusInternalServerError, "service error"))
    /\ httpPc' = "done"
    /\ UNCHANGED <<adapter, httpReq, validated>>

\* POST /api/process-image of the server main, up to the OCR call.
MainReceive ==
    /\ adapter = "main"
    /\ httpPc = "received"
    /\ IF ~httpReq.formOK
         THEN /\ httpResp' = Append(httpResp,
                    MainErrorResponse(StatusOK, "Failed to parse form"))
              /\ httpPc' = "done"
         ELSE IF ~httpReq.fileOK
         THEN /\ httpResp' = Append(httpResp,
                    MainErrorResponse(StatusBadRequest, "No file provided"))
              /\ httpPc' = "done"
         ELSE IF ~httpReq.tmpOK
         THEN /\ httpResp' = Append(httpResp,
                    MainErrorResponse(StatusInternalServerError,
                                      "Failed to create temporary file"))
              /\ httpPc' = "done"
         ELSE IF ~httpReq.copyOK
         THEN /\ httpResp' = Append(httpResp,
                    MainErrorResponse(StatusInternalServerError,
                                      "Failed to save file"))
              /\ httpPc' = "done"
         ELSE /\ httpResp' = httpResp
              /\ httpPc' = "validated"
    /\ UNCHANGED <<adapter, httpReq, validated, serviceCalls, serviceArgs>>

\* ... the OCR call with the options literal, and the response.
MainServe ==
    /\ adapter = "main"
    /\ httpPc = "validated"
    /\ serviceCalls' = serviceCalls + 1
    /\ serviceArgs' = MainOptions
    /\ httpResp' = Append(httpResp,
          IF httpReq.serviceOK
            THEN ResponseOf(StatusOK, TRUE, TRUE, "Image processed successfully")
            ELSE MainErrorResponse(StatusInternalServerError,
                                   "OCR processing failed"))
    /\ httpPc' = "done"
    /\ UNCHANGED <<adapter, httpReq, validated>>

\* The FormRequest: the controller runs only when no rule fails.
LaravelValidate ==
    /\ adapter = "laravel"
    /\ httpPc = "received"
    /\ IF Rules(httpReq) # {}
         THEN /\ httpResp' = Append(httpResp, ValidationFailedResponse)
              /\ httpPc' = "done"
              /\ validated' = validated
         ELSE /\ validated' = httpReq
              /\ httpPc' = "validated"
              /\ httpResp' = httpResp
    /\ UNCHANGED <<adapter, httpReq, serviceCalls, serviceArgs>>

\* Controller::__invoke: Service::execute calls the Python OCR API.
LaravelInvoke ==
    /\ adapter = "laravel"
    /\ httpPc = "validated"
    /\ serviceCalls' = serviceCalls + 1
    /\ serviceArgs' = ControllerArgs(validated)
    /\ httpResp' = Append(httpResp,
          IF ServiceExecute(httpReq.upstream).thrown THEN ServerErrorResponse
          ELSE ControllerResponse)
    /\ httpPc' = "done"
    /\ UNCHANGED <<adapter, httpReq, validated>>

\* ===========================================================================
\* Stored page results and the block edit services (UpdateBlock, DeleteBlock)
\* ===========================================================================

\* Bounds of the store: pages of the stored request, edits in a row.
MaxStorePages == 2
MaxEdits == 2

\* models.BlockInfo as stored in a page file.
StoredBlock(id, text, conf, x, y, w, h, type) ==
    [ID |-> id, Text |-> text, Confidence |-> Rat(conf, 100),
     BBox |-> [X |-> x, Y |-> y, Width |-> w, Height |-> h],
     BlockType |-> type]

\* A page file page_<n>.json: it parses into models.OCRResult or it does not;
\* keys that OCRResult does not know are listed apart.
PageFile(blocks, total, unknownKeys) ==
    [parses |-> TRUE, Blocks |-> blocks, TotalBlocks |-> total,
     unknownKeys |-> unknownKeys]

UnreadablePage ==
    [parses |-> FALSE, Blocks |-> <<>>, TotalBlocks |-> 0, unknownKeys |-> {}]

\* Page files of a stored request: two words; a page that repeats an id of
\* another page and carries a key of another writer; a page that holds one
\* id twice; a file that does not parse.
StorePagePool ==
    { PageFile(<<StoredBlock(0, "Hello", 90, 0, 0, 50, 20, "text"),
                 StoredBlock(1, "World", 80, 55, 0, 50, 20, "text")>>, 2, {}),
      PageFile(<<StoredBlock(1, "x", 95, 0, 40, 30, 20, "title"),
                 StoredBlock(2, "y", 70, 0, 80, 30, 20, "text")>>, 2,
               {"page_number"}),
      PageFile(<<StoredBlock(1, "World", 80, 55, 0, 50, 20, "text"),
                 StoredBlock(0, "Hello", 90, 0, 0, 50, 20, "text"),
                 StoredBlock(1, "x", 95, 0, 40, 30, 20, "title")>>, 3, {}),
      UnreadablePage }

\* The directory of one request: metadata.json (readable or not, with its
\* total_pages) and the page files page_1.json .. page_<total_pages>.json.
StoredRequest(metadataOK, ps) ==
    [metadataOK |-> metadataOK, TotalPages |-> Len(ps), pages |-> ps]

StoredRequestPool ==
    { StoredRequest(m, ps) :
        m \in BOOLEAN,
        ps \in SeqsUpTo(StorePagePool, MaxStorePages) \ {<<>>} }

\* Block ids a caller may name, new texts, and what os.WriteFile does: it
\* writes the file, fails before touching it, or fails after truncating it.
EditBlockIDs == 0..2
EditTexts == {"edited"}
WriteOutcomes == {"ok", "not-written", "torn"}

\* json.Unmarshal into models.OCRResult and json.MarshalIndent of it: the blocks
\* and the counters survive, unknown keys do not.
UnmarshalPage(file) == [Blocks |-> file.Blocks, TotalBlocks |-> file.TotalBlocks]

MarshalPage(pageResult) ==
    PageFile(pageResult.Blocks, pageResult.TotalBlocks, {})

HasBlock(blocks, blockID) == \E j \in 1..Len(blocks) : blocks[j].ID = blockID

\* The page loop of both services: the first page, in 1..TotalPages, that
\* reads, parses and holds the block; 0 when there is none.
RECURSIVE FindPageFrom(_, _, _)
FindPageFrom(req, blockID, i) ==
    IF i > req.TotalPages THEN 0
    ELSE IF req.pages[i].parses /\ HasBlock(UnmarshalPage(req.pages[i]).Blocks, blockID)
      THEN i
      ELSE FindPageFrom(req, blockID, i + 1)

FindPage(req, blockID) == FindPageFrom(req, blockID, 1)

\* UpdateBlock: the first block of the page with the id gets the new text.
FirstIndexOf(blocks, blockID) ==
    CHOOSE j \in 1..Len(blocks) :
        /\ blocks[j].ID = blockID
        /\ \A k \in 1..(j - 1) : blocks[k].ID # blockID

SetText(blocks, blockID, newText) ==
    [blocks EXCEPT ![FirstIndexOf(blocks, blockID)].Text = newText]

\* The mutant renumbers the blocks that remain.
RemoveBlockRenumbering(blocks, blockID) ==
    LET kept == SelectSeq(blocks, LAMBDA b : b.ID # blockID)
    IN  [j \in 1..Len(kept) |-> [kept[j] EXCEPT !.ID = j - 1]]

\* DeleteBlock: every block of the page with the id is left out.
RemoveBlock(blocks, blockID) ==
    SelectSeq(blocks, LAMBDA b : b.ID # blockID)

\* os.WriteFile of the page.
WritePage(req, i, pageResult, outcome) ==
    CASE outcome = "ok" -> [req EXCEPT !.pages[i] = MarshalPage(pageResult)]
      [] outcome = "torn" -> [req EXCEPT !.pages[i] = UnreadablePage]
      [] OTHER -> req

\* What an edit leaves behind: the files, its error, whether it called
\* os.WriteFile.
EditResult(req, err, wrote) == [store |-> req, err |-> err, wrote |-> wrote]

\* UpdateBlock.Execute(ctx, requestID, blockID, newText).
UpdateBlockExecute(req, blockID, newText, outcome) ==
    IF ~req.metadataOK THEN EditResult(req, "request not found", FALSE)
    ELSE LET i == FindPage(req, blockID)
         IN  IF i = 0 THEN EditResult(req, "block not found", FALSE)
             ELSE LET page == UnmarshalPage(req.pages[i])
                      updated == [page EXCEPT
                                    !.Blocks = SetText(page.Blocks, blockID, newText)]
                  IN  EditResult(WritePage(req, i, updated, outcome),
                                 IF outcome = "ok" THEN Nil
                                 ELSE "failed to save updated page",
                                 TRUE)

\* The mutant writes the first page back when no page holds the block.
DeleteBlockExecuteRewriting(req, blockID, outcome) ==
    IF ~req.metadataOK THEN EditResult(req, "request not found", FALSE)
    ELSE LET i == FindPage(req, blockID)
         IN  IF i = 0
               THEN EditResult(
                      IF req.pages[1].parses
                        THEN WritePage(req, 1, UnmarshalPage(req.pages[1]), "ok")
                        ELSE req,
                      "block not found", req.pages[1].parses)
             ELSE LET page == UnmarshalPage(req.pages[i])
                      updated == [page EXCEPT
                                    !.Blocks = RemoveBlock(page.Blocks, blockID)]
                  IN  EditResult(WritePage(req, i, updated, outcome),
                                 IF outcome = "ok" THEN Nil
                                 ELSE "failed to save updated page",
                                 TRUE)

\* DeleteBlock.Execute(ctx, requestID, blockID).
DeleteBlockExecute(req, blockID, outcome) ==
    IF ~req.metadataOK THEN EditResult(req, "request not found", FALSE)
    ELSE LET i == FindPage(req, blockID)
         IN  IF i = 0 THEN EditResult(req, "block not found", FALSE)
             ELSE LET page == UnmarshalPage(req.pages[i])
                      updated == [page EXCEPT
                                    !.Blocks = RemoveBlock(page.Blocks, blockID)]
                  IN  EditResult(WritePage(req, i, updated, outcome),
                                 IF outcome = "ok" THEN Nil
                                 ELSE "failed to save updated page",
                                 TRUE)

NoBlock == [absent |-> TRUE]

\* GetBlock.Execute(ctx, requestID, blockID): the first block with the id in
\* the first page that parses and holds it.
GetBlockExecute(req, blockID) ==
    IF ~req.metadataOK THEN [err |-> "request not found", block |-> NoBlock]
    ELSE LET i == FindPage(req, blockID)
         IN  IF i = 0 THEN [err |-> "block not found", block |-> NoBlock]
             ELSE LET blocks == UnmarshalPage(req.pages[i]).Blocks
                  IN  [err |-> Nil, block |-> blocks[FirstIndexOf(blocks, blockID)]]

NoEdit ==
    [op |-> "none", blockID |-> 0, newText |-> "", err |-> Nil, wrote |-> FALSE]

NoGet == [called |-> FALSE, blockID |-> 0, err |-> Nil, block |-> NoBlock]

StoreInit ==
    /\ store \in StoredRequestPool
    /\ prevStore = store
    /\ lastEdit = NoEdit
    /\ editCount = 0
    /\ firstStore = store
    /\ prevEdit = NoEdit
    /\ lastGet = NoGet

StoreIdle ==
    /\ store = StoredRequest(FALSE, <<>>)
    /\ prevStore = store
    /\ lastEdit = NoEdit
    /\ editCount = 0
    /\ firstStore = store
    /\ prevEdit = NoEdit
    /\ lastGet = NoGet

\* PUT /api/blocks/{request_id}/{block_id}.
UpdateBlock ==
    /\ editCount < MaxEdits
    /\ \E blockID \in EditBlockIDs, newText \in EditTexts, outcome \in WriteOutcomes :
          LET r == UpdateBlockExecute(store, blockID, newText, outcome)
          IN  /\ store' = r.store
              /\ lastEdit' = [op |-> "update", blockID |-> blockID,
                              newText |-> newText, err |-> r.err,
                              wrote |-> r.wrote]
    /\ prevStore' = store
    /\ editCount' = editCount + 1
    /\ prevEdit' = lastEdit
    /\ lastGet' = NoGet
    /\ UNCHANGED firstStore

\* DELETE /api/blocks/{request_id}/{block_id}.
DeleteBlock ==
    /\ editCount < MaxEdits
    /\ \E blockID \in EditBlockIDs, outcome \in WriteOutcomes :
          LET r == DeleteBlockExecute(store, blockID, outcome)
          IN  /\ store' = r.store
              /\ lastEdit' = [op |-> "delete", blockID |-> blockID,
                              newText |-> "", err |-> r.err,
                              wrote |-> r.wrote]
    /\ prevStore' = store
    /\ editCount' = editCount + 1
    /\ prevEdit' = lastEdit
    /\ lastGet' = NoGet
    /\ UNCHANGED firstStore

\* GET /api/blocks/{request_id}/{block_id}.
GetBlock ==
    /\ \E blockID \in EditBlockIDs :
          LET r == GetBlockExecute(store, blockID)
          IN  lastGet' = [called |-> TRUE, blockID |-> blockID, err |-> r.err,
                          block |-> r.block]
    /\ UNCHANGED <<store, prevStore, lastEdit, editCount, firstStore, prevEdit>>

\* ===========================================================================
\* Two edit requests served at once
\* ===========================================================================
\* net/http serves each request on a goroutine of its own; the edit services
\* hold no lock, so the reads and the writes of two calls interleave.
Editors == {1, 2}

\* The calls: an UpdateBlock beside an UpdateBlock or a DeleteBlock, on
\* different block ids.
EditCallPool ==
    { [op |-> o, blockID |-> b, newText |-> IF o = "update" THEN "edited" ELSE ""] :
        o \in {"update", "delete"}, b \in EditBlockIDs }

EditorOf(call) ==
    [call |-> call, pc |-> "start", page |-> 0, pageResult |-> NoBlock, err |-> Nil]

EditorsInit ==
    /\ store \in { r \in StoredRequestPool : r.metadataOK }
    /\ prevStore = store
    /\ firstStore = store
    /\ lastEdit = NoEdit
    /\ prevEdit = NoEdit
    /\ lastGet = NoGet
    /\ editCount = 0
    /\ editors \in { [e \in Editors |-> EditorOf(IF e = 1 THEN c1 ELSE c2)] :
                        c1 \in { c \in EditCallPool : c.op = "update" },
                        c2 \in EditCallPool }
    /\ editors[1].call.blockID # editors[2].call.blockID

EditorsIdle == editors = <<>>

\* The call up to the end of its search: metadata.json, then the pages until
\* one holds the block; the page is decoded and changed in memory.
EditorReads(e) ==
    /\ editors[e].pc = "start"
    /\ LET call == editors[e].call
           i == FindPage(store, call.blockID)
       IN  IF i = 0
             THEN editors' = [editors EXCEPT ![e].pc = "done",
                                             ![e].err = "block not found"]
             ELSE LET page == UnmarshalPage(store.pages[i])
                      blocks == IF call.op = "update"
                                  THEN SetText(page.Blocks, call.blockID, call.newText)
                                  ELSE RemoveBlock(page.Blocks, call.blockID)
                  IN  editors' = [editors EXCEPT
                                    ![e].pc = "found",
                                    ![e].page = i,
                                    ![e].pageResult = [page EXCEPT !.Blocks = blocks]]
    /\ UNCHANGED <<store, prevStore, lastEdit, editCount, firstStore, prevEdit, lastGet>>

\* json.MarshalIndent and os.WriteFile of the page the call holds in memory.
EditorWrites(e) ==
    /\ editors[e].pc = "found"
    /\ \E outcome \in WriteOutcomes :
          /\ store' = WritePage(store, editors[e].page, editors[e].pageResult, outcome)
          /\ editors' = [editors EXCEPT
                            ![e].pc = "done",
                            ![e].err = IF outcome = "ok" THEN Nil
                                       ELSE "failed to save updated page"]
    /\ UNCHANGED <<prevStore, lastEdit, editCount, firstStore, prevEdit, lastGet>>

\* ===========================================================================
\* The output directory: requests, page results and templates on disk
\* ===========================================================================

\* Bounds: calls that write in a row, pages of a created request.
MaxWrites == 2
MaxRequestPages == 2

\* fmt.Sprintf("%d", n) and fmt.Sprintf("%03d", n).
DigitOf(d) == <<"0", "1", "2", "3", "4", "5", "6", "7", "8", "9">>[d + 1]

RECURSIVE SprintfD(_)
SprintfD(n) == IF n < 10 THEN DigitOf(n) ELSE SprintfD(n \div 10) \o DigitOf(n % 10)

Sprintf03D(n) ==
    IF n < 10 THEN "00" \o SprintfD(n)
    ELSE IF n < 100 THEN "0" \o SprintfD(n)
    ELSE SprintfD(n)

\* The paths the services build with filepath.Join, below the output directory.
MetadataPath(requestID) == requestID \o "/metadata.json"
PagePath(requestID, n) == requestID \o "/page_" \o SprintfD(n) \o ".json"
PageResultPath(requestID, n) ==
    requestID \o "/pages/" \o Sprintf03D(n) \o "/result.json"
TemplatePath(templateID) == "templates/" \o templateID \o ".json"

\* Files: os.ReadFile, os.WriteFile and os.Remove on a set of (path, content).
NoFile == [missing |-> TRUE]

Exists(files, path) == \E f \in files : f.path = path

ReadFile(files, path) ==
    IF Exists(files, path) THEN (CHOOSE f \in files : f.path = path).content
    ELSE NoFile

WriteFile(files, path, content) ==
    { f \in files : f.path # path } \cup {[path |-> path, content |-> content]}

Remove(files, path) == { f \in files : f.path # path }

\* uuid.New(): an id no directory or template of the output directory has.
UuidPool == {"r1", "r2"}

\* Storage.NewService and the NewService of the template services, as main
\* calls them: MkdirAll(baseDir), MkdirAll(baseDir/templates).
StorageNewService(dirs) == dirs

TemplateNewService(dirs) == dirs \cup {"templates"}

\* models.RequestMetadata and models.PageResult as JSON documents.
MetadataOf(requestID, totalPages) ==
    [json |-> "metadata", RequestID |-> requestID, TotalPages |-> totalPages,
     Status |-> "pending"]

PageResultOf(n, blocks) ==
    [json |-> "page", PageNumber |-> n, Blocks |-> blocks,
     TotalBlocks |-> Len(blocks)]

\* Page results a caller may save: what ExtractBlocks.Execute makes of a page.
SavedBlocksPool ==
    { ConvertBoxes(<<WordBox("Hello", 90, 0, 0, 50, 20),
                     WordBox("World", 80, 55, 0, 105, 20)>>),
      ConvertBoxes(<<WordBox("", 0, 110, 0, 110, 20),
                     WordBox("x", 95, 0, 40, 30, 60)>>) }

\* Storage.CreateRequest: the directories, then metadata.json.
\*   outcome "ok", "mkdir-fails" (nothing created), "save-fails" (directories
\*   without metadata.json).
CreateRequestExecute(dirs, files, requestID, totalPages, outcome) ==
    CASE outcome = "mkdir-fails" ->
            [dirs |-> dirs, files |-> files, id |-> "",
             err |-> "failed to create directory"]
      [] outcome = "save-fails" ->
            [dirs |-> dirs \cup {requestID}, files |-> files, id |-> "",
             err |-> "failed to save metadata"]
      [] OTHER ->
            [dirs |-> dirs \cup {requestID},
             files |-> WriteFile(files, MetadataPath(requestID),
                                 MetadataOf(requestID, totalPages)),
             id |-> requestID, err |-> Nil]

\* Storage.GetMetadata.
GetMetadataExecute(files, requestID) ==
    LET data == ReadFile(files, MetadataPath(requestID))
    IN  IF data = NoFile THEN [err |-> "failed to read metadata", metadata |-> NoFile]
        ELSE [err |-> Nil, metadata |-> data]

\* The mutant lists the directories that hold a metadata.json only.
ListRequestsWithMetadata(dirs, files) ==
    { d \in dirs : Exists(files, MetadataPath(d)) }

\* Storage.ListRequests: the name of every directory of the output directory.
ListRequests(dirs, files) == dirs

\* Storage.SavePageResult: pages/<%03d>/result.json.
SavePageResultExecute(files, requestID, n, result, outcome) ==
    IF outcome = "ok"
      THEN [files |-> WriteFile(files, PageResultPath(requestID, n), result),
            err |-> Nil]
      ELSE [files |-> files, err |-> "failed to write page result"]

\* json.Unmarshal of a page file into models.OCRResult.
UnmarshalOCRResult(data) ==
    IF data.json = "page"
      THEN [Blocks |-> data.Blocks, TotalBlocks |-> data.TotalBlocks]
      ELSE [Blocks |-> <<>>, TotalBlocks |-> 0]

\* GetPage.Execute: page_<%d>.json.
GetPageExecute(files, requestID, pageNumber) ==
    IF pageNumber < 1 THEN [err |-> "invalid page number", result |-> NoFile]
    ELSE LET data == ReadFile(files, PagePath(requestID, pageNumber))
         IN  IF data = NoFile THEN [err |-> "page not found", result |-> NoFile]
             ELSE [err |-> Nil, result |-> UnmarshalOCRResult(data)]

\* The directory of a request as the block and page services read it:
\* metadata.json and page_1.json .. page_<total_pages>.json.
RequestView(files, requestID) ==
    LET m == GetMetadataExecute(files, requestID)
    IN  IF m.err # Nil THEN StoredRequest(FALSE, <<>>)
        ELSE StoredRequest(TRUE,
               [i \in 1..m.metadata.TotalPages |->
                  LET data == ReadFile(files, PagePath(requestID, i))
                  IN  IF data = NoFile THEN UnreadablePage
                      ELSE PageFile(UnmarshalOCRResult(data).Blocks,
                                    UnmarshalOCRResult(data).TotalBlocks,
                                    {"page_number"})])

\* ListPages.Execute: one summary per page of the metadata; a page that does
\* not read or parse counts 0 blocks.
ListPagesExecute(files, requestID) ==
    LET view == RequestView(files, requestID)
    IN  IF ~view.metadataOK THEN [err |-> "request not found", pages |-> <<>>]
        ELSE [err |-> Nil,
              pages |-> [i \in 1..view.TotalPages |->
                           [PageNumber |-> i,
                            BlockCount |-> IF view.pages[i].parses
                                             THEN Len(view.pages[i].Blocks)
                                             ELSE 0]]]

\* ---- calls on the output directory ----------------------------------------------
NoCall == [op |-> "none"]

FilesInit ==
    /\ fsDirs = TemplateNewService(StorageNewService({}))
    /\ fsFiles = {}
    /\ created = {}
    /\ live = {}
    /\ lastWrite = NoCall
    /\ lastRead = NoCall
    /\ writeCount = 0

FilesIdle ==
    /\ fsDirs = {}
    /\ fsFiles = {}
    /\ created = {}
    /\ live = {}
    /\ lastWrite = NoCall
    /\ lastRead = NoCall
    /\ writeCount = 0

\* Storage.CreateRequest(filename, fileType, fileSize, totalPages).
CreateRequest ==
    /\ writeCount < MaxWrites
    /\ \E requestID \in UuidPool \ fsDirs, totalPages \in 1..MaxRequestPages,
          outcome \in {"ok", "mkdir-fails", "save-fails"} :
          LET r == CreateRequestExecute(fsDirs, fsFiles, requestID, totalPages, outcome)
          IN  /\ fsDirs' = r.dirs
              /\ fsFiles' = r.files
              /\ created' = IF r.err = Nil THEN created \cup {r.id} ELSE created
              /\ lastWrite' = [op |-> "CreateRequest", id |-> r.id, err |-> r.err]
    /\ lastRead' = NoCall
    /\ writeCount' = writeCount + 1
    /\ UNCHANGED live

\* Storage.SavePageResult(requestID, pageNum, result) for a created request.
SavePageResult ==
    /\ writeCount < MaxWrites
    /\ \E requestID \in created, n \in 1..MaxRequestPages,
          blocks \in SavedBlocksPool, outcome \in {"ok", "fails"} :
          LET r == SavePageResultExecute(fsFiles, requestID, n,
                                         PageResultOf(n, blocks), outcome)
          IN  /\ n <= GetMetadataExecute(fsFiles, requestID).metadata.TotalPages
              /\ fsFiles' = r.files
              /\ lastWrite' = [op |-> "SavePageResult", id |-> requestID,
                               page |-> n, blocks |-> blocks, err |-> r.err]
    /\ lastRead' = NoCall
    /\ writeCount' = writeCount + 1
    /\ UNCHANGED <<fsDirs, created, live>>

\* POST /api/process-image of the server main, from the OCR call on: the OCR
\* result, Storage.CreateRequest with one page, the response.
HandleProcessImage ==
    /\ writeCount < MaxWrites
    /\ \E blocks \in SavedBlocksPool, ocrOK \in BOOLEAN,
          requestID \in UuidPool \ fsDirs,
          outcome \in {"ok", "mkdir-fails", "save-fails"} :
          LET r == CreateRequestExecute(fsDirs, fsFiles, requestID, 1, outcome)
          IN  IF ~ocrOK
                THEN /\ lastWrite' = [op |-> "process-image", success |-> FALSE,
                                      id |-> "", blocks |-> <<>>,
                                      err |-> "OCR processing failed"]
                     /\ UNCHANGED <<fsDirs, fsFiles, created>>
                ELSE /\ fsDirs' = r.dirs
                     /\ fsFiles' = r.files
                     /\ created' = IF r.err = Nil THEN created \cup {r.id} ELSE created
                     /\ lastWrite' = [op |-> "process-image", success |-> TRUE,
                                      id |-> r.id, blocks |-> blocks, err |-> Nil]
    /\ lastRead' = NoCall
    /\ writeCount' = writeCount + 1
    /\ UNCHANGED live

\* GET /api/requests.
CallListRequests ==
    /\ lastRead' = [op |-> "ListRequests", ids |-> ListRequests(fsDirs, fsFiles)]
    /\ UNCHANGED <<fsDirs, fsFiles, created, live, lastWrite, writeCount>>

\* GET /api/pages/{request_id}/{page_number}.
CallGetPage ==
    /\ \E requestID \in fsDirs, n \in 1..MaxRequestPages :
          lastRead' = [op |-> "GetPage", id |-> requestID, page |-> n,
                       answer |-> GetPageExecute(fsFiles, requestID, n)]
    /\ UNCHANGED <<fsDirs, fsFiles, created, live, lastWrite, writeCount>>

\* GET /api/pages/{request_id}.
CallListPages ==
    /\ \E requestID \in fsDirs :
          lastRead' = [op |-> "ListPages", id |-> requestID,
                       answer |-> ListPagesExecute(fsFiles, requestID)]
    /\ UNCHANGED <<fsDirs, fsFiles, created, live, lastWrite, writeCount>>

\* GET /api/blocks/{request_id}/{block_id}.
CallGetBlock ==
    /\ \E requestID \in fsDirs, blockID \in EditBlockIDs :
          lastRead' = [op |-> "GetBlock", id |-> requestID, blockID |-> blockID,
                       answer |-> GetBlockExecute(RequestView(fsFiles, requestID),
                                                  blockID)]
    /\ UNCHANGED <<fsDirs, fsFiles, created, live, lastWrite, writeCount>>

\* ---- the template services ----------------------------------------------------
\* models.TemplateCreateRequest: a name (or none) and fields (or none).
TemplateFieldPool ==
    { <<>>, <<[Name |-> "total", Type |-> "number", Required |-> TRUE]>> }

TemplateRequestPool ==
    { [Name |-> n, Fields |-> fs] :
        n \in {"", "invoice", "receipt"}, fs \in TemplateFieldPool }

TemplateUuidPool == {"t1", "t2"}

\* Ids a caller may name: those a CreateTemplate returned, or one nobody has.
TemplateIDsKnown == created \cup {"t0"}

\* models.Template as a JSON document, and what is left of a failed write.
TemplateOf(id, req) ==
    [json |-> "template", ID |-> id, Name |-> req.Name, Fields |-> req.Fields]

TornFile == [json |-> "torn"]

TemplateIDsOnDisk(files) ==
    { id \in TemplateUuidPool : Exists(files, TemplatePath(id)) }

TemplateAnswer(files, err, template) ==
    [files |-> files, err |-> err, template |-> template]

\* The mutant does not require a name.
CreateTemplateExecuteUnvalidated(files, id, req, outcome) ==
    IF Len(req.Fields) = 0
      THEN TemplateAnswer(files, "template must have at least one field", NoFile)
    ELSE CASE outcome = "ok" ->
                 TemplateAnswer(WriteFile(files, TemplatePath(id), TemplateOf(id, req)),
                                Nil, TemplateOf(id, req))
           [] outcome = "torn" ->
                 TemplateAnswer(WriteFile(files, TemplatePath(id), TornFile),
                                "failed to save template", NoFile)
           [] OTHER -> TemplateAnswer(files, "failed to save template", NoFile)

\* CreateTemplate.Execute: name and fields are required; the template gets a
\* new id and is written to templates/<id>.json.
CreateTemplateExecute(files, id, req, outcome) ==
    IF req.Name = ""
      THEN TemplateAnswer(files, "template name is required", NoFile)
    ELSE IF Len(req.Fields) = 0
      THEN TemplateAnswer(files, "template must have at least one field", NoFile)
    ELSE CASE outcome = "ok" ->
                 TemplateAnswer(WriteFile(files, TemplatePath(id), TemplateOf(id, req)),
                                Nil, TemplateOf(id, req))
           [] outcome = "torn" ->
                 TemplateAnswer(WriteFile(files, TemplatePath(id), TornFile),
                                "failed to save template", NoFile)
           [] OTHER -> TemplateAnswer(files, "failed to save template", NoFile)

\* DeleteTemplate.Execute: os.Stat, then os.Remove.
DeleteTemplateExecute(files, templateID) ==
    IF ~Exists(files, TemplatePath(templateID))
      THEN TemplateAnswer(files, "template not found", NoFile)
      ELSE TemplateAnswer(Remove(files, TemplatePath(templateID)), Nil, NoFile)

\* GetTemplate.Execute: read and parse templates/<id>.json.
GetTemplateExecute(files, templateID) ==
    LET data == ReadFile(files, TemplatePath(templateID))
    IN  IF data = NoFile THEN TemplateAnswer(files, "template not found", NoFile)
        ELSE IF data.json # "template"
          THEN TemplateAnswer(files, "failed to parse template", NoFile)
        ELSE TemplateAnswer(files, Nil, data)

\* ListTemplates.Execute: every .json file of the directory that reads and
\* parses.
ListTemplatesExecute(files) ==
    { ReadFile(files, TemplatePath(id)) :
        id \in { i \in TemplateIDsOnDisk(files) :
                    ReadFile(files, TemplatePath(i)).json = "template" } }

TemplatesInit ==
    /\ fsDirs = TemplateNewService(StorageNewService({}))
    /\ fsFiles = {}
    /\ created = {}
    /\ live = {}
    /\ lastWrite = NoCall
    /\ lastRead = NoCall
    /\ writeCount = 0

\* POST /api/templates.
CreateTemplate ==
    /\ writeCount < MaxWrites
    /\ \E id \in TemplateUuidPool \ (TemplateIDsOnDisk(fsFiles) \cup created),
          req \in TemplateRequestPool,
          outcome \in WriteOutcomes :
          LET r == CreateTemplateExecute(fsFiles, id, req, outcome)
          IN  /\ fsFiles' = r.files
              /\ created' = IF r.err = Nil THEN created \cup {id} ELSE created
              /\ live' = IF r.err = Nil THEN live \cup {r.template} ELSE live
              /\ lastWrite' = [op |-> "CreateTemplate", req |-> req, err |-> r.err,
                               before |-> fsFiles, liveBefore |-> live]
    /\ lastRead' = NoCall
    /\ writeCount' = writeCount + 1
    /\ UNCHANGED fsDirs

\* DELETE /api/templates/{id}.
DeleteTemplate ==
    /\ writeCount < MaxWrites
    /\ \E id \in TemplateIDsKnown :
          LET r == DeleteTemplateExecute(fsFiles, id)
          IN  /\ fsFiles' = r.files
              /\ live' = IF r.err = Nil THEN { t \in live : t.ID # id } ELSE live
              /\ lastWrite' = [op |-> "DeleteTemplate", id |-> id, err |-> r.err,
                               before |-> fsFiles, liveBefore |-> live]
    /\ lastRead' = NoCall
    /\ writeCount' = writeCount + 1
    /\ UNCHANGED <<fsDirs, created>>

\* GET /api/templates.
CallListTemplates ==
    /\ lastRead' = [op |-> "ListTemplates", templates |-> ListTemplatesExecute(fsFiles)]
    /\ UNCHANGED <<fsDirs, fsFiles, created, live, lastWrite, writeCount>>

\* GET /api/templates/{id}.
CallGetTemplate ==
    /\ \E id \in TemplateIDsKnown :
          lastRead' = [op |-> "GetTemplate", id |-> id,
                       answer |-> GetTemplateExecute(fsFiles, id)]
    /\ UNCHANGED <<fsDirs, fsFiles, created, live, lastWrite, writeCount>>

\* ===========================================================================
\* Idle values of the other components
\* ===========================================================================
MergeIdle ==
    /\ detections = <<>>
    /\ thresholdPx = 0
    /\ mergePc = "idle"
    /\ out1 = NoMerge
    /\ out2 = NoMerge

ClassIdle ==
    /\ cBlocks = <<>>
    /\ pageHeight = 0
    /\ classified = NoClassify

TreeIdle ==
    /\ tBlocks = <<>>
    /\ hierarchy = NoTree

HttpIdle ==
    /\ adapter = "idle"
    /\ httpReq = Nil
    /\ httpPc = "idle"
    /\ validated = Unset
    /\ serviceCalls = 0
    /\ serviceArgs = Unset
    /\ httpResp = <<>>

\* ===========================================================================
\* Specifications
\* ===========================================================================
Init ==
    PipeInit /\ CtxInit /\ MergeIdle /\ ClassIdle /\ TreeIdle /\ HttpIdle
    /\ StoreIdle /\ EditorsIdle /\ FilesIdle

Next ==
    \/ ProcessImage /\ StageStarts
          /\ UNCHANGED <<mergeVars, classVars, treeVars, httpVars, storeVars, editors, fileVars>>
    \/ PDFOpen /\ UNCHANGED <<ctxVars, mergeVars, classVars, treeVars, httpVars, storeVars, editors, fileVars>>
    \/ PDFPage /\ StageStarts
          /\ UNCHANGED <<mergeVars, classVars, treeVars, httpVars, storeVars, editors, fileVars>>
    \/ PDFReturn /\ UNCHANGED <<ctxVars, mergeVars, classVars, treeVars, httpVars, storeVars, editors, fileVars>>
    \/ CancelContext
          /\ UNCHANGED <<pipeVars, mergeVars, classVars, treeVars, httpVars, storeVars, editors, fileVars>>

Spec == Init /\ [][Next]_vars

MergeSpecInit ==
    PipeIdle /\ CtxIdle /\ MergeInit /\ ClassIdle /\ TreeIdle /\ HttpIdle
    /\ StoreIdle /\ EditorsIdle /\ FilesIdle

MergeNext ==
    \/ RunMerge /\ UNCHANGED <<pipeVars, ctxVars, classVars, treeVars, httpVars, storeVars, editors, fileVars>>
    \/ RerunMerge /\ UNCHANGED <<pipeVars, ctxVars, classVars, treeVars, httpVars, storeVars, editors, fileVars>>

SpecMerge == MergeSpecInit /\ [][MergeNext]_vars

ClassSpecInit ==
    PipeIdle /\ CtxIdle /\ MergeIdle /\ ClassInit /\ TreeIdle /\ HttpIdle
    /\ StoreIdle /\ EditorsIdle /\ FilesIdle

ClassNext ==
    RunClassify /\ UNCHANGED <<pipeVars, ctxVars, mergeVars, treeVars, httpVars, storeVars, editors, fileVars>>

SpecClassify == ClassSpecInit /\ [][ClassNext]_vars

TreeSpecInit ==
    PipeIdle /\ CtxIdle /\ MergeIdle /\ ClassIdle /\ TreeInit /\ HttpIdle
    /\ StoreIdle /\ EditorsIdle /\ FilesIdle

TreeNext ==
    RunBuildTree /\ UNCHANGED <<pipeVars, ctxVars, mergeVars, classVars, httpVars, storeVars, editors, fileVars>>

SpecTree == TreeSpecInit /\ [][TreeNext]_vars

HttpSpecInit ==
    PipeIdle /\ CtxIdle /\ MergeIdle /\ ClassIdle /\ TreeIdle /\ HttpInit
    /\ StoreIdle /\ EditorsIdle /\ FilesIdle

HttpOthers == <<pipeVars, ctxVars, mergeVars, classVars, treeVars, storeVars, editors, fileVars>>

HttpNext ==
    \/ GoValidate /\ UNCHANGED HttpOthers
    \/ GoServe /\ UNCHANGED HttpOthers
    \/ MainReceive /\ UNCHANGED HttpOthers
    \/ MainServe /\ UNCHANGED HttpOthers
    \/ LaravelValidate /\ UNCHANGED HttpOthers
    \/ LaravelInvoke /\ UNCHANGED HttpOthers

SpecHTTP == HttpSpecInit /\ [][HttpNext]_vars

StoreSpecInit ==
    PipeIdle /\ CtxIdle /\ MergeIdle /\ ClassIdle /\ TreeIdle /\ HttpIdle
    /\ StoreInit /\ EditorsIdle /\ FilesIdle

StoreOthers ==
    <<pipeVars, ctxVars, mergeVars, classVars, treeVars, httpVars, editors,
      fileVars>>

StoreNext ==
    \/ UpdateBlock /\ UNCHANGED StoreOthers
    \/ DeleteBlock /\ UNCHANGED StoreOthers
    \/ GetBlock /\ UNCHANGED StoreOthers

SpecStore == StoreSpecInit /\ [][StoreNext]_vars

EditorsSpecInit ==
    PipeIdle /\ CtxIdle /\ MergeIdle /\ ClassIdle /\ TreeIdle /\ HttpIdle
    /\ EditorsInit /\ FilesIdle

EditorsOthers ==
    <<pipeVars, ctxVars, mergeVars, classVars, treeVars, httpVars, fileVars>>

EditorsNext ==
    \/ \E e \in Editors : EditorReads(e) /\ UNCHANGED EditorsOthers
    \/ \E e \in Editors : EditorWrites(e) /\ UNCHANGED EditorsOthers

SpecEditors == EditorsSpecInit /\ [][EditorsNext]_vars

FilesSpecInit ==
    PipeIdle /\ CtxIdle /\ MergeIdle /\ ClassIdle /\ TreeIdle /\ HttpIdle
    /\ StoreIdle /\ EditorsIdle /\ FilesInit

FilesOthers ==
    <<pipeVars, ctxVars, mergeVars, classVars, treeVars, httpVars, storeVars,
      editors>>

FilesNext ==
    \/ CreateRequest /\ UNCHANGED FilesOthers
    \/ SavePageResult /\ UNCHANGED FilesOthers
    \/ HandleProcessImage /\ UNCHANGED FilesOthers
    \/ CallListRequests /\ UNCHANGED FilesOthers
    \/ CallGetPage /\ UNCHANGED FilesOthers
    \/ CallListPages /\ UNCHANGED FilesOthers
    \/ CallGetBlock /\ UNCHANGED FilesOthers

SpecFiles == FilesSpecInit /\ [][FilesNext]_vars

TemplatesSpecInit ==
    PipeIdle /\ CtxIdle /\ MergeIdle /\ ClassIdle /\ TreeIdle /\ HttpIdle
    /\ StoreIdle /\ EditorsIdle /\ TemplatesInit

TemplatesNext ==
    \/ CreateTemplate /\ UNCHANGED FilesOthers
    \/ DeleteTemplate /\ UNCHANGED FilesOthers
    \/ CallListTemplates /\ UNCHANGED FilesOthers
    \/ CallGetTemplate /\ UNCHANGED FilesOthers

SpecTemplates == TemplatesSpecInit /\ [][TemplatesNext]_vars

\* ===========================================================================
\* Properties of the Go page pipeline (checked under Spec)
\* ===========================================================================
ImageDone == kind = "image" /\ imageRes.err # "not-run"
ImageOK   == kind = "image" /\ imageRes.err = Nil
PDFOK     == kind = "pdf" /\ pdfRes.err = Nil

DistinctIDs(blocks) ==
    \A i, j \in 1..Len(blocks) : i # j => blocks[i].ID # blocks[j].ID

ConsecutiveIDs(blocks) ==
    \A k \in 1..Len(blocks) : blocks[k].ID = blocks[1].ID + (k - 1)

\* C1: in every page result (the result of ExtractBlocks.Execute, every page
\* collected and returned by ProcessPDF.Execute) the block ids are pairwise
\* distinct, also when detections with empty text were skipped.
C1_DistinctBlockIDs ==
    /\ ImageOK => DistinctIDs(imageRes.result.Blocks)
    /\ \A p \in 1..Len(pages) : DistinctIDs(pages[p].Blocks)
    /\ PDFOK => \A p \in 1..Len(pdfRes.result.Pages) :
                    DistinctIDs(pdfRes.result.Pages[p].Blocks)

\* A page result with two blocks and a skipped detection.
C1_Witness ==
    /\ ImageOK
    /\ Len(imageRes.result.Blocks) >= 2
    /\ Len(imageRes.result.Blocks) < Len(engine.boxes)

\* C2: the ids of the blocks of a page result, read in output order, are
\* consecutive integers without gaps, also when some detections are not
\* emitted as blocks.
C2_SequentialIDs ==
    /\ ImageOK => ConsecutiveIDs(imageRes.result.Blocks)
    /\ \A p \in 1..Len(pages) : ConsecutiveIDs(pages[p].Blocks)

\* C3: Scenario A. With merging enabled and merge_threshold = 30 the detections
\* "Hello" (0,0,50,20) and "World" (55,0,50,20) come out as the single block
\* "Hello World" with bbox (0,0,105,20).
ScenarioA ==
    << WordBox("Hello", 90, 0, 0, 50, 20), WordBox("World", 80, 55, 0, 105, 20) >>

C3_ScenarioAMerged ==
    ( /\ ImageOK
      /\ options.MergeBlocks
      /\ options.MergeThreshold = 30
      /\ engine.boxes = ScenarioA )
    => /\ Len(imageRes.result.Blocks) = 1
       /\ imageRes.result.Blocks[1].Text = "Hello World"
       /\ imageRes.result.Blocks[1].BBox = [X |-> 0, Y |-> 0, Width |-> 105, Height |-> 20]

\* The block is the detection: same text, same rectangle, same confidence
\* (Tesseract's 0..100 scale against the block's 0..1 scale).
SameAsDetection(block, box) ==
    /\ block.Text = box.Word
    /\ block.BBox.X = box.Min.X
    /\ block.BBox.Y = box.Min.Y
    /\ block.BBox.X + block.BBox.Width = box.Max.X
    /\ block.BBox.Y + block.BBox.Height = box.Max.Y
    /\ block.Confidence.num * 100 = box.Confidence * block.Confidence.den

PassThrough(blocks, bxs) ==
    /\ Len(blocks) = Len(bxs)
    /\ \A i \in 1..Len(bxs) : SameAsDetection(blocks[i], bxs[i])

HasText(box) == box.Word # ""

TreeMaxDepth(tree) ==
    IF DOMAIN tree = {} THEN 0
    ELSE CHOOSE d \in {tree[k].depth : k \in DOMAIN tree} :
             \A k \in DOMAIN tree : tree[k].depth <= d

EmptyResult(res) ==
    /\ res.TotalBlocks = 0
    /\ res.Blocks = <<>>
    /\ res.Sections = <<>>
    /\ TreeMaxDepth(res.HierarchyTree) = 0

\* C6: a page with zero detections is not an error: the pipeline returns a
\* result without an error value, with total_blocks = 0, no blocks, no
\* sections and hierarchy max_depth = 0. The same holds for such a page inside
\* a PDF.
C6_EmptyPageIsNoError ==
    /\ ( /\ ImageDone
         /\ engine.setImageOK /\ engine.boxesOK
         /\ engine.boxes = <<>> )
       => (imageRes.err = Nil /\ EmptyResult(imageRes.result))
    /\ \A p \in 1..Len(pages) :
          doc.pages[p].engine.boxes = <<>> => EmptyResult(pages[p])
    /\ ( /\ kind = "pdf" /\ pdfPc = "done"
         /\ doc.openOK /\ Len(doc.pages) > 0
         /\ \A p \in 1..Len(doc.pages) :
               /\ doc.pages[p].renderOK
               /\ doc.pages[p].engine.setImageOK
               /\ doc.pages[p].engine.boxesOK )
       => pdfRes.err = Nil

\* The engine answered an image with no detection at all.
C6_Witness ==
    /\ ImageDone
    /\ engine.setImageOK /\ engine.boxesOK
    /\ engine.boxes = <<>>
    /\ imageRes.err = Nil

\* ===========================================================================
\* Properties of BlockMerger.Merge (checked under SpecMerge)
\* ===========================================================================
SameBlocks(bs1, bs2) ==
    /\ Len(bs1) = Len(bs2)
    /\ \A i \in 1..Len(bs1) : bs1[i].text = bs2[i].text /\ bs1[i].bbox = bs2[i].bbox

\* C4: Merge is idempotent: Merge on Merge(D, t) with the same t performs no
\* merge and returns the same blocks (count, text, bbox), for every D, also
\* when the first run stopped at the pass cap.
C4_MergeIdempotent ==
    mergePc = "done" => SameBlocks(out2.blocks, out1.blocks)

\* C4 restricted to first runs that ended with a pass without merges.
C4_FixedPointIsStable ==
    (mergePc = "done" /\ out1.lastMerges = 0) => SameBlocks(out2.blocks, out1.blocks)

\* A first run that stopped at the cap with its last pass still merging.
C4_CapReached ==
    mergePc = "done" /\ out1.passes = MaxPasses /\ out1.lastMerges > 0

\* ===========================================================================
\* Properties of SectionClassifier.Classify (checked under SpecClassify)
\* ===========================================================================
\* Occurrences of block id b in the sections: (section, position) pairs.
Occurrences(sections, b) ==
    { <<s, k>> \in (1..Len(sections)) \X (1..MaxClassBlocks + 1) :
         k <= Len(sections[s].block_ids) /\ sections[s].block_ids[k] = b }

\* C7: section completeness. Every block of the page is in exactly one
\* section: every block id occurs exactly once in the block_ids of all the
\* sections together, and the sections hold nothing but block ids of the page.
C7_SectionCompleteness ==
    classified.ran =>
        /\ \A i \in 1..Len(cBlocks) :
              Cardinality(Occurrences(classified.sections, cBlocks[i].id)) = 1
        /\ \A s \in 1..Len(classified.sections) :
              \A k \in 1..Len(classified.sections[s].block_ids) :
                 \E i \in 1..Len(cBlocks) :
                    cBlocks[i].id = classified.sections[s].block_ids[k]

\* A page with a block that passes both the header test and the footer test,
\* classified into more than one section.
C7_Witness ==
    /\ classified.ran
    /\ Len(classified.sections) >= 2
    /\ \E i \in 1..Len(cBlocks) :
          /\ 100 * cBlocks[i].bbox.y < HeaderPercent * classified.height
          /\ 100 * Bottom(cBlocks[i].bbox) > FooterPercent * classified.height

\* ===========================================================================
\* Properties of HierarchyBuilder.BuildTree (checked under SpecTree)
\* ===========================================================================
\* Following parent_id from b reaches a root in at most the given steps.
RECURSIVE ReachesRoot(_, _, _)
ReachesRoot(nodeMap, b, steps) ==
    IF nodeMap[b].parent_id = NoParent THEN TRUE
    ELSE IF steps = 0 THEN FALSE
    ELSE ReachesRoot(nodeMap, nodeMap[b].parent_id, steps - 1)

\* C8: acyclicity. Following parent_id from any block reaches a root within
\* max_depth + 1 steps; no block is its own ancestor.
C8_Acyclic ==
    hierarchy.ran =>
        \A b \in DOMAIN hierarchy.nodes :
            ReachesRoot(hierarchy.nodes, b, hierarchy.stats.max_depth + 1)

\* C9: depth consistency. Every block id has exactly one node; a node has
\* depth 0 exactly when it has no parent; a node with a parent is one level
\* below its parent.
C9_DepthConsistency ==
    hierarchy.ran =>
        /\ DOMAIN hierarchy.nodes = IDSet(tBlocks)
        /\ \A b \in DOMAIN hierarchy.nodes :
              LET n == hierarchy.nodes[b]
              IN  /\ n.block_id = b
                  /\ (n.depth = 0) <=> (n.parent_id = NoParent)
                  /\ n.parent_id # NoParent =>
                        n.depth = hierarchy.nodes[n.parent_id].depth + 1

\* The blocks other than B whose bbox contains B's bbox within the tolerance.
Containers(B) ==
    { i \in 1..Len(tBlocks) :
         tBlocks[i].id # B.id /\ Contains(tBlocks[i].bbox, B.bbox) }

\* Containers of B that B does not contain in turn while having the lower id.
ValidContainers(B) ==
    { i \in Containers(B) :
         ~(Contains(B.bbox, tBlocks[i].bbox) /\ B.id < tBlocks[i].id) }

\* The parent of B is one of the blocks cs, and none of cs has a smaller
\* area; B is a root exactly when cs is empty.
TightestAmong(B, cs) ==
    LET p == hierarchy.nodes[B.id].parent_id
    IN  /\ (p = NoParent) <=> (cs = {})
        /\ cs # {} =>
              \E i \in cs :
                 /\ tBlocks[i].id = p
                 /\ \A j \in cs : Area(tBlocks[i].bbox) <= Area(tBlocks[j].bbox)

\* C10 as stated: the parent of B is a block of minimal area among all the
\* blocks that contain B; B is a root exactly when no other block contains it.
C10_TightestContainer ==
    hierarchy.ran =>
        \A k \in 1..Len(tBlocks) : TightestAmong(tBlocks[k], Containers(tBlocks[k]))

\* C10 as amended: the same over the valid candidates of B, which leave out a
\* block that B contains as well (identical bboxes within the tolerance)
\* unless that block has the lower id.
C10_TightestValidCandidate ==
    hierarchy.ran =>
        \A k \in 1..Len(tBlocks) : TightestAmong(tBlocks[k], ValidContainers(tBlocks[k]))

\* A block with two valid candidates of different area, next to a block whose
\* only other container is the twin it contains itself.
C10_Witness ==
    /\ hierarchy.ran
    /\ \E k \in 1..Len(tBlocks) :
          \E i, j \in ValidContainers(tBlocks[k]) :
             Area(tBlocks[i].bbox) < Area(tBlocks[j].bbox)
    /\ \E k \in 1..Len(tBlocks) :
          Containers(tBlocks[k]) # ValidContainers(tBlocks[k])

\* C11: parent, children and statistics agree: B is in nodes[A].children
\* exactly when nodes[B].parent_id = A, and root_blocks is the number of nodes
\* whose parent_id is null; for A = (0,0,200,200) and B = (10,10,50,50) this
\* gives parent(B) = A, B in children(A) and root_blocks = 1.
ScenarioD ==
    /\ Len(tBlocks) = 2
    /\ tBlocks[1].bbox = BBoxOf(0, 0, 200, 200)
    /\ tBlocks[2].bbox = BBoxOf(10, 10, 50, 50)

C11_ParentChildrenStats ==
    hierarchy.ran =>
        LET nodes == hierarchy.nodes
        IN  /\ \A a, b \in DOMAIN nodes :
                 (b \in nodes[a].children) <=> (nodes[b].parent_id = a)
            /\ hierarchy.stats.root_blocks =
                 Cardinality({ b \in DOMAIN nodes : nodes[b].parent_id = NoParent })
            /\ ScenarioD =>
                 /\ nodes[tBlocks[2].id].parent_id = tBlocks[1].id
                 /\ tBlocks[2].id \in nodes[tBlocks[1].id].children
                 /\ hierarchy.stats.root_blocks = 1

C11_Witness ==
    /\ hierarchy.ran
    /\ \E a, b, c \in DOMAIN hierarchy.nodes :
          /\ hierarchy.nodes[c].parent_id = b
          /\ hierarchy.nodes[b].parent_id = a
          /\ hierarchy.nodes[a].parent_id = NoParent

C11_ScenarioDReached == hierarchy.ran /\ ScenarioD

\* ---------------------------------------------------------------------------
\* C12: the position pass gives every block exactly one Section type: header
\* when bbox.y < 0.15 * pageHeight, otherwise footer when bbox.y + bbox.height
\* > 0.85 * pageHeight, otherwise body (page height 1000, y = 10, height = 20
\* gives header); the pattern pass moves no header or footer block to another
\* section.
SectionsHolding(b) ==
    { s \in 1..Len(classified.sections) :
        \E k \in 1..Len(classified.sections[s].block_ids) :
            classified.sections[s].block_ids[k] = b }

InHeaderBand(block) == 100 * block.bbox.y < 15 * classified.height
InFooterBand(block) == 100 * (block.bbox.y + block.bbox.height) > 85 * classified.height

ExpectedSection(block) ==
    IF InHeaderBand(block) THEN "header"
    ELSE IF InFooterBand(block) THEN "footer"
    ELSE "body"

ScenarioB(block) ==
    pageHeight = 1000 /\ block.bbox.y = 10 /\ block.bbox.height = 20

C12_PositionPass ==
    classified.ran =>
        \A i \in 1..Len(cBlocks) :
            LET block == cBlocks[i]
                holds == SectionsHolding(block.id)
            IN  /\ Cardinality(holds) = 1
                /\ \A s \in holds :
                      classified.sections[s].type = ExpectedSection(block)
                /\ ExpectedSection(block) # "body" =>
                      classified.blocks[i].block_type = ExpectedSection(block)
                /\ ScenarioB(block) =>
                      \A s \in holds : classified.sections[s].type = "header"

\* A page on which one block passes the header test and the footer test, and a
\* block whose text is a list item lies in the header or footer band.
C12_Witness ==
    /\ classified.ran
    /\ \E i \in 1..Len(cBlocks) : InHeaderBand(cBlocks[i]) /\ InFooterBand(cBlocks[i])
    /\ \E i \in 1..Len(cBlocks) :
          /\ LooksLikeListItem(cBlocks[i].text)
          /\ ExpectedSection(cBlocks[i]) # "body"
    /\ \E i \in 1..Len(cBlocks) : ExpectedSection(cBlocks[i]) = "body"

C12_ScenarioBReached ==
    classified.ran /\ \E i \in 1..Len(cBlocks) : ScenarioB(cBlocks[i])


\* ---------------------------------------------------------------------------
\* Text through BlockMerger.Merge (checked under SpecMerge): separators aside,
\* the text of the blocks is the text of the detections of valid geometry in
\* reading order; the text of a dropped detection is not in the output.
RECURSIVE ConcatChars(_)
ConcatChars(bs) == IF bs = <<>> THEN <<>> ELSE bs[1].text \o ConcatChars(Tail(bs))

RECURSIVE WithoutSpaces(_)
WithoutSpaces(t) ==
    IF t = <<>> THEN <<>>
    ELSE (IF IsSpace(t[1]) THEN <<>> ELSE <<t[1]>>) \o WithoutSpaces(Tail(t))

MergerKeepsTextOfValid ==
    out1.ran =>
        WithoutSpaces(ConcatChars(out1.blocks)) =
        WithoutSpaces(ConcatChars(SortByYX(SelectSeq(detections, ValidGeometry))))

MergerKeepsTextOfAll ==
    out1.ran =>
        WithoutSpaces(ConcatChars(out1.blocks)) =
        WithoutSpaces(ConcatChars(SortByYX(detections)))
\* ===========================================================================
\* Text and geometry of the page result (checked under Spec)
\* ===========================================================================
\* The words of the engine and the text of the blocks, concatenated in order.
\* RIL_WORD words hold no whitespace and the conversion adds no separator.
RECURSIVE ConcatWords(_)
ConcatWords(bxs) ==
    IF bxs = <<>> THEN "" ELSE bxs[1].Word \o ConcatWords(Tail(bxs))

RECURSIVE ConcatText(_)
ConcatText(blocks) ==
    IF blocks = <<>> THEN "" ELSE blocks[1].Text \o ConcatText(Tail(blocks))

C13_PDFReached ==
    /\ PDFOK
    /\ \E k \in 1..Len(pages) : Len(pages[k].Blocks) = 2

\* C14: every Block of a page result has bbox width > 0 and height > 0: a
\* detection of non-positive width or height is excluded from the blocks, and
\* its presence never fails the page as a whole.
PositiveGeometry(blocks) ==
    \A i \in 1..Len(blocks) : blocks[i].BBox.Width > 0 /\ blocks[i].BBox.Height > 0

EngineWorks(eng) == eng.setImageOK /\ eng.boxesOK

C14_PositiveGeometry ==
    /\ ImageDone =>
          /\ EngineWorks(engine) => imageRes.err = Nil
          /\ imageRes.err = Nil => PositiveGeometry(imageRes.result.Blocks)
    /\ kind = "pdf" =>
          \A k \in 1..Len(pages) : PositiveGeometry(pages[k].Blocks)

\* ===========================================================================
\* Properties of the serving adapters (checked under SpecHTTP)
\* ===========================================================================
HttpDone == httpPc = "done"

HasFlags == adapter \in {"go", "laravel"}

ThresholdOutOfRange ==
    /\ HasFlags
    /\ httpReq.merge_threshold.present
    /\ (httpReq.merge_threshold.value < 1 \/ httpReq.merge_threshold.value > 100)

ValidationError(r) ==
    r.status \in {StatusBadRequest, StatusUnprocessable} /\ ~(r.hasSuccess /\ r.success)

\* C15: a process-image or process-pdf request whose merge_threshold lies
\* outside 1..100 is rejected at the boundary with a validation error and the
\* OCR service is not run for it, in the Laravel adapter and in the Go adapter.
C15_ThresholdRangeRejected ==
    ThresholdOutOfRange =>
        /\ serviceCalls = 0
        /\ httpPc # "validated"
        /\ HttpDone => Len(httpResp) = 1 /\ ValidationError(httpResp[1])

\* The same for the Laravel adapter alone.
C15_LaravelRejects ==
    adapter = "laravel" => C15_ThresholdRangeRejected

\* The options handed to the OCR service, as far as the adapter hands them.
HandedMergeBlocks ==
    IF adapter = "main" THEN serviceArgs.MergeBlocks ELSE serviceArgs.merge_blocks

HandedMergeThreshold ==
    CASE adapter = "main" -> serviceArgs.MergeThreshold
      [] adapter = "laravel" -> serviceArgs.merge_threshold
      [] OTHER -> validated.MergeThreshold

\* C16: when the request omits the flags, the options handed to the OCR
\* pipeline have merge_blocks = true and merge_threshold = 30 (and
\* create_sections = false, build_hierarchy_tree = false); an omitted
\* merge_blocks is never treated as false.
C16_Defaults ==
    serviceCalls > 0 =>
        /\ (HasFlags => ~httpReq.merge_blocks.present) => HandedMergeBlocks = TRUE
        /\ (HasFlags => ~httpReq.merge_threshold.present) => HandedMergeThreshold = 30
        /\ adapter = "main" =>
              /\ serviceArgs.CreateSections = FALSE
              /\ serviceArgs.BuildHierarchyTree = FALSE

\* The same without the Go ValidateRequest adapter.
C16_DefaultsElsewhere ==
    adapter # "go" => C16_Defaults

\* C18: the Go process-image handler answers every request with exactly one of
\* three outcomes, decided in this order: validation fails (malformed JSON or
\* missing image_path): 400, success = false, a non-empty message, and the OCR
\* service is never invoked; else the service fails: 500, success = false;
\* else 200, success = true.
GoValidationFails == ~httpReq.jsonOK \/ httpReq.image_path = ""

C18_ThreeOutcomes ==
    adapter = "go" =>
        /\ Len(httpResp) <= 1
        /\ GoValidationFails => serviceCalls = 0
        /\ HttpDone =>
              /\ Len(httpResp) = 1
              /\ LET r == httpResp[1]
                 IN  IF GoValidationFails
                       THEN /\ r.status = 400
                            /\ r.hasSuccess /\ ~r.success
                            /\ r.message # ""
                            /\ serviceCalls = 0
                     ELSE IF ~httpReq.serviceOK
                       THEN /\ r.status = 500
                            /\ r.hasSuccess /\ ~r.success
                            /\ serviceCalls = 1
                     ELSE /\ r.status = 200
                          /\ r.hasSuccess /\ r.success
                          /\ serviceCalls = 1

\* The request of the validation test: well-formed JSON without image_path.
C18_Witness ==
    /\ adapter = "go" /\ HttpDone
    /\ httpReq.jsonOK /\ httpReq.image_path = ""
    /\ httpResp[1].status = 400

C18_ServiceErrorReached ==
    adapter = "go" /\ HttpDone /\ Len(httpResp) = 1 /\ httpResp[1].status = 500

C18_SuccessReached ==
    adapter = "go" /\ HttpDone /\ Len(httpResp) = 1 /\ httpResp[1].status = 200

\* C19: in the Laravel adapter, when the Python OCR API answers a valid
\* process-image or process-pdf request with a failure status, the endpoint
\* responds 500 and never with the success = true envelope; the upstream API is
\* called only after validation has passed (a request failing validation gets
\* 422 and causes no upstream call).
LaravelRequestValid ==
    /\ httpReq.file = "valid"
    /\ httpReq.merge_threshold.present =>
          (httpReq.merge_threshold.value >= 1 /\ httpReq.merge_threshold.value <= 100)

C19_UpstreamFailure ==
    adapter = "laravel" =>
        /\ serviceCalls > 0 => LaravelRequestValid /\ validated # Unset
        /\ (HttpDone /\ ~LaravelRequestValid) =>
              /\ Len(httpResp) = 1
              /\ httpResp[1].status = 422
              /\ serviceCalls = 0
        /\ (HttpDone /\ LaravelRequestValid /\ httpReq.upstream = "failure-status") =>
              /\ Len(httpResp) = 1
              /\ httpResp[1].status = 500
              /\ ~(httpResp[1].hasSuccess /\ httpResp[1].success)
              /\ serviceCalls = 1

C19_Witness ==
    /\ adapter = "laravel" /\ HttpDone
    /\ LaravelRequestValid
    /\ httpReq.upstream = "failure-status"
    /\ httpReq.endpoint = "process-image"
    /\ serviceCalls = 1
    /\ httpResp[1].status = 500

C19_ValidationFailureReached ==
    /\ adapter = "laravel" /\ HttpDone
    /\ httpReq.file = "missing"
    /\ httpResp[1].status = 422

\* ===========================================================================
\* Cancellation (checked under Spec)
\* ===========================================================================
\* C17: when the caller's context is already cancelled or past its deadline
\* before a processing stage starts, that stage is not executed and the
\* operation returns with an error; ProcessPDF.Execute renders and OCRs no
\* further page once the context has been cancelled.
C17_HonoursCancellation ==
    /\ lateStages = 0
    /\ ctx.atStart =>
          /\ ImageDone => imageRes.err # Nil
          /\ (kind = "pdf" /\ pdfPc = "done") => pdfRes.err # Nil

\* A PDF whose pages all went through OCR although the context was cancelled
\* before the call.
C17_AllPagesAfterCancelReached ==
    PDFOK /\ ctx.atStart /\ Len(pages) = MaxPages /\ lateStages = MaxPages

\* ===========================================================================
\* Properties of the stored results under edits (checked under SpecStore)
\* ===========================================================================
EditSucceeded == lastEdit.op \in {"update", "delete"} /\ lastEdit.err = Nil

\* The blocks of a page file with an id other than blockID, in their order.
OtherBlocks(file, blockID) == SelectSeq(file.Blocks, LAMBDA b : b.ID # blockID)

\* Every field of a block but its text.
WithoutText(b) ==
    [ID |-> b.ID, Confidence |-> b.Confidence, BBox |-> b.BBox,
     BlockType |-> b.BlockType]

\* C20: after a successful UpdateBlock(R, b, text) or DeleteBlock(R, b), every
\* stored block of R with an id other than b keeps its id, text, confidence,
\* bbox, block_type and its relative order in every page (no renumbering), and
\* for UpdateBlock the block b itself keeps every field except its text.
C20_EditFrame ==
    EditSucceeded =>
        /\ Len(store.pages) = Len(prevStore.pages)
        /\ \A k \in 1..Len(store.pages) :
              /\ store.pages[k].parses = prevStore.pages[k].parses
              /\ OtherBlocks(store.pages[k], lastEdit.blockID)
                    = OtherBlocks(prevStore.pages[k], lastEdit.blockID)
              /\ lastEdit.op = "update" =>
                    /\ Len(store.pages[k].Blocks) = Len(prevStore.pages[k].Blocks)
                    /\ \A j \in 1..Len(store.pages[k].Blocks) :
                          WithoutText(store.pages[k].Blocks[j])
                             = WithoutText(prevStore.pages[k].Blocks[j])

\* A delete that took a block out from between two others of the page, and
\* left blocks with greater ids behind.
C20_Witness ==
    /\ EditSucceeded
    /\ lastEdit.op = "delete"
    /\ \E k \in 1..Len(store.pages) :
          /\ Len(store.pages[k].Blocks) < Len(prevStore.pages[k].Blocks)
          /\ \E j \in 1..Len(store.pages[k].Blocks) :
                store.pages[k].Blocks[j].ID > lastEdit.blockID

\* An update that changed the text of one block of a page holding others.
C20_UpdateReached ==
    /\ EditSucceeded
    /\ lastEdit.op = "update"
    /\ \E k \in 1..Len(store.pages) :
          /\ store.pages[k] # prevStore.pages[k]
          /\ \E j \in 1..Len(store.pages[k].Blocks) :
                /\ store.pages[k].Blocks[j].ID = lastEdit.blockID
                /\ store.pages[k].Blocks[j].Text = lastEdit.newText
          /\ OtherBlocks(store.pages[k], lastEdit.blockID) # <<>>

\* ===========================================================================
\* The response envelope of the Go API (checked under SpecHTTP)
\* ===========================================================================
GoEndpoint == adapter \in {"go", "main"}

IsSuccessStatus(status) == status >= 200 /\ status < 300
IsErrorStatus(status) == status >= 400

\* C21: every JSON response of a Go API endpoint carries success, with
\* success = true exactly when the HTTP status is 2xx and success = false
\* exactly when it is an error status (>= 400); no handler branch returns
\* success = false with status 200.
C21_StandardEnvelope ==
    GoEndpoint =>
        \A n \in 1..Len(httpResp) :
            /\ httpResp[n].hasSuccess
            /\ httpResp[n].success <=> IsSuccessStatus(httpResp[n].status)
            /\ ~httpResp[n].success <=> IsErrorStatus(httpResp[n].status)

\* The same for the handler built on errorresponse.Write alone.
C21_EnvelopeOfHandle ==
    adapter = "go" => C21_StandardEnvelope

\* The branch of the server main that answers a form it cannot parse.
C21_FalseWith200Reached ==
    /\ adapter = "main" /\ HttpDone
    /\ ~httpReq.formOK
    /\ httpResp[1].status = StatusOK
    /\ ~httpResp[1].success

\* C22: in every stored page result, total_blocks equals the number of entries
\* of blocks, initially and after any sequence of successful UpdateBlock and
\* DeleteBlock operations on the page.
C22_TotalBlocksMatches ==
    \A k \in 1..Len(store.pages) :
        store.pages[k].parses =>
            store.pages[k].TotalBlocks = Len(store.pages[k].Blocks)

\* It holds for the stored pages before any edit.
C22_HoldsInitially ==
    editCount = 0 => C22_TotalBlocksMatches

\* A successful delete that left total_blocks above the number of blocks.
C22_StaleCountReached ==
    /\ EditSucceeded
    /\ lastEdit.op = "delete"
    /\ \E k \in 1..Len(store.pages) :
          /\ prevStore.pages[k].TotalBlocks = Len(prevStore.pages[k].Blocks)
          /\ store.pages[k].parses
          /\ store.pages[k].TotalBlocks > Len(store.pages[k].Blocks)

\* Block ids are unique within each page of the request / within the request.
UniqueInPage(file) ==
    \A i, j \in 1..Len(file.Blocks) :
        file.Blocks[i].ID = file.Blocks[j].ID => i = j

UniqueInEachPage(req) == \A k \in 1..Len(req.pages) : UniqueInPage(req.pages[k])

UniqueInRequest(req) ==
    /\ UniqueInEachPage(req)
    /\ \A k, l \in 1..Len(req.pages) :
          k # l => \A i \in 1..Len(req.pages[k].Blocks) :
                      ~HasBlock(req.pages[l].Blocks, req.pages[k].Blocks[i].ID)

DeleteSucceeded(e) == e.op = "delete" /\ e.err = Nil

\* GetBlock(R, b) was called after the last edit, which deleted b.
GetAfterDelete ==
    /\ DeleteSucceeded(lastEdit)
    /\ lastGet.called
    /\ lastGet.blockID = lastEdit.blockID

\* DeleteBlock(R, b) was called again right after it had succeeded.
DeleteAfterDelete ==
    /\ DeleteSucceeded(prevEdit)
    /\ lastEdit.op = "delete"
    /\ lastEdit.blockID = prevEdit.blockID

DeleteEffective ==
    /\ GetAfterDelete => lastGet.err = "block not found"
    /\ DeleteAfterDelete => lastEdit.err = "block not found"

\* C23: for every stored request R whose block ids are unique within each
\* page, after DeleteBlock(R, b) returns success, GetBlock(R, b) returns the
\* not-found error and a second DeleteBlock(R, b) returns the not-found error.
C23_DeleteEffective ==
    UniqueInEachPage(firstStore) => DeleteEffective

\* The same for requests whose block ids are unique in the whole request and
\* whose pages all parse.
C23_EffectiveWhenUniqueInRequest ==
    (UniqueInRequest(firstStore)
        /\ \A k \in 1..Len(firstStore.pages) : firstStore.pages[k].parses)
      => DeleteEffective

\* The deleted id is found again in a later page.
C23_FoundAfterDeleteReached ==
    /\ UniqueInEachPage(firstStore)
    /\ GetAfterDelete
    /\ lastGet.err = Nil
    /\ lastGet.block.ID = lastEdit.blockID

C23_UniqueCaseReached ==
    /\ UniqueInRequest(firstStore)
    /\ GetAfterDelete
    /\ lastGet.err = "block not found"

EditFailedBeforeWriting ==
    /\ lastEdit.op \in {"update", "delete"}
    /\ lastEdit.err \in {"request not found", "block not found"}

\* C24: when UpdateBlock or DeleteBlock returns an error because the request
\* metadata is missing or no page of the request contains a block with the
\* given id, no page file of the request is written and every stored page is
\* identical to its state before the call.
C24_FailedEditsChangeNothing ==
    EditFailedBeforeWriting =>
        /\ ~lastEdit.wrote
        /\ store = prevStore

\* An edit of an id that no page of a readable request holds, among pages that
\* hold other blocks.
C24_Witness ==
    /\ EditFailedBeforeWriting
    /\ lastEdit.err = "block not found"
    /\ store.metadataOK
    /\ \E k \in 1..Len(store.pages) :
          store.pages[k].parses /\ store.pages[k].Blocks # <<>>

C24_MissingMetadataReached ==
    /\ EditFailedBeforeWriting
    /\ lastEdit.err = "request not found"
    /\ \E k \in 1..Len(store.pages) : store.pages[k].Blocks # <<>>

\* An edit that fails while writing does change the page.
C24_TornWriteReached ==
    /\ lastEdit.err = "failed to save updated page"
    /\ store # prevStore

\* ===========================================================================
\* Block ids across the pages of a PDF (checked under Spec)
\* ===========================================================================
RECURSIVE BlocksBefore(_, _)
BlocksBefore(ps, p) ==
    IF p <= 1 THEN 0 ELSE BlocksBefore(ps, p - 1) + Len(ps[p - 1].Blocks)

RECURSIVE SumTotalBlocks(_)
SumTotalBlocks(ps) ==
    IF ps = <<>> THEN 0 ELSE ps[1].TotalBlocks + SumTotalBlocks(Tail(ps))

AllBlockIDs(ps) ==
    UNION { { ps[p].Blocks[j].ID : j \in 1..Len(ps[p].Blocks) } : p \in 1..Len(ps) }

\* C27: in the result of ProcessPDF.Execute on a PDF with n >= 1 pages, the
\* j-th block of page p (counting from 0) has id (sum of the block counts of
\* the pages before p) + j, so the ids of all pages together are exactly
\* 0..TotalBlocks-1; TotalBlocks is the sum of the per-page total_blocks and
\* TotalPages is the number of page results, in page order.
C27_ContiguousIDs ==
    (kind = "pdf" /\ pdfRes.err = Nil) =>
        LET res == pdfRes.result
            ps  == res.Pages
        IN  /\ res.TotalPages = Len(ps)
            /\ Len(ps) = Len(doc.pages)
            /\ res.TotalBlocks = SumTotalBlocks(ps)
            /\ \A p \in 1..Len(ps) :
                  /\ ps[p].TotalBlocks = Len(ps[p].Blocks)
                  /\ ps[p].TotalBlocks = ExtractBlocksExecute(doc.pages[p].engine, options).result.TotalBlocks
                  /\ \A j \in 1..Len(ps[p].Blocks) :
                        ps[p].Blocks[j].ID = BlocksBefore(ps, p) + (j - 1)
            /\ AllBlockIDs(ps) = 0..(res.TotalBlocks - 1)

\* Two pages with blocks, the first of which had a box skipped, so that the
\* ids the pages came with had a gap and overlapped.
C27_Witness ==
    /\ kind = "pdf" /\ pdfRes.err = Nil
    /\ Len(pdfRes.result.Pages) = 2
    /\ Len(pdfRes.result.Pages[1].Blocks) = 2
    /\ Len(doc.pages[1].engine.boxes) = 3
    /\ Len(pdfRes.result.Pages[2].Blocks) >= 1

\* ===========================================================================
\* Edits served at once (checked under SpecEditors)
\* ===========================================================================
BothSucceeded ==
    \A e \in Editors : editors[e].pc = "done" /\ editors[e].err = Nil

\* Both calls name blocks of the same page of the request.
SamePageEdited ==
    /\ FindPage(firstStore, editors[1].call.blockID) # 0
    /\ FindPage(firstStore, editors[1].call.blockID)
          = FindPage(firstStore, editors[2].call.blockID)

\* The page shows the edit of a call.
Reflects(file, call) ==
    IF call.op = "delete" THEN ~HasBlock(file.Blocks, call.blockID)
    ELSE /\ HasBlock(file.Blocks, call.blockID)
         /\ file.Blocks[FirstIndexOf(file.Blocks, call.blockID)].Text = call.newText

\* C28: when two edit operations on different blocks b1 # b2 of the same
\* stored page (UpdateBlock/UpdateBlock or UpdateBlock/DeleteBlock) run
\* concurrently and both return success, then in every interleaving of their
\* read and write steps the stored page afterwards reflects both edits.
C28_NoLostUpdate ==
    (BothSucceeded /\ SamePageEdited) =>
        \A e \in Editors :
            Reflects(store.pages[FindPage(firstStore, editors[1].call.blockID)],
                     editors[e].call)

\* When one call has written before the other reads, both edits are there.
C28_BothReflectedReached ==
    /\ BothSucceeded /\ SamePageEdited
    /\ \A e \in Editors :
          Reflects(store.pages[FindPage(firstStore, editors[1].call.blockID)],
                   editors[e].call)

\* Both calls succeeded and the update of the first is gone.
C28_LostUpdateReached ==
    /\ BothSucceeded /\ SamePageEdited
    /\ ~Reflects(store.pages[FindPage(firstStore, editors[1].call.blockID)],
                 editors[1].call)

\* ===========================================================================
\* Properties of the output directory (checked under SpecFiles)
\* ===========================================================================
Listed == lastRead.op = "ListRequests"

\* C25: ListRequests returns exactly the ids of the requests created by
\* CreateRequest: every id it returns was returned by an earlier
\* CreateRequest and GetMetadata succeeds for it, and every created request
\* id is in the list.
C25_ListIsCreated ==
    Listed =>
        /\ \A id \in lastRead.ids :
              id \in created /\ GetMetadataExecute(fsFiles, id).err = Nil
        /\ \A id \in created : id \in lastRead.ids

\* The second half alone: every created request id is in the list, with its
\* metadata.
C25_CreatedAreListed ==
    Listed =>
        \A id \in created :
            id \in lastRead.ids /\ GetMetadataExecute(fsFiles, id).err = Nil

\* The list names the directory of the templates.
C25_TemplatesListedReached ==
    Listed /\ "templates" \in lastRead.ids /\ created # {}

\* The list names a request directory that CreateRequest left without metadata.
C25_HalfCreatedListedReached ==
    /\ Listed
    /\ \E id \in lastRead.ids :
          id \in UuidPool /\ id \notin created

IDsOf(blocks) == { blocks[j].ID : j \in 1..Len(blocks) }

Saved == lastWrite.op = "SavePageResult" /\ lastWrite.err = Nil

\* C26: after Storage.SavePageResult(R, n, result) succeeds for a request R
\* created by CreateRequest and 1 <= n <= total_pages, GetPage(R, n) returns
\* that page's blocks, ListPages(R) reports block_count = number of blocks of
\* the saved page for page n, and GetBlock(R, b) finds every block b of the
\* saved page.
C26_RoundTrip ==
    Saved =>
        /\ (lastRead.op = "GetPage" /\ lastRead.id = lastWrite.id
                /\ lastRead.page = lastWrite.page) =>
              /\ lastRead.answer.err = Nil
              /\ lastRead.answer.result.Blocks = lastWrite.blocks
        /\ (lastRead.op = "ListPages" /\ lastRead.id = lastWrite.id) =>
              /\ lastRead.answer.err = Nil
              /\ lastRead.answer.pages[lastWrite.page].BlockCount
                    = Len(lastWrite.blocks)
        /\ (lastRead.op = "GetBlock" /\ lastRead.id = lastWrite.id
                /\ lastRead.blockID \in IDsOf(lastWrite.blocks)) =>
              /\ lastRead.answer.err = Nil
              /\ \E j \in 1..Len(lastWrite.blocks) :
                    lastRead.answer.block = lastWrite.blocks[j]

\* The saved page is not found under the path GetPage reads.
C26_PageNotFoundReached ==
    /\ Saved
    /\ lastRead.op = "GetPage" /\ lastRead.id = lastWrite.id
    /\ lastRead.page = lastWrite.page
    /\ lastRead.answer.err = "page not found"
    /\ Exists(fsFiles, PageResultPath(lastWrite.id, lastWrite.page))

Processed ==
    lastWrite.op = "process-image" /\ lastWrite.success /\ lastWrite.id # ""

\* C30: after POST /api/process-image returns success with request_id R and
\* blocks B, the stored request R has a page 1 holding B, so that
\* GET /api/pages/R/1 returns B and GET /api/blocks/R/b returns block b for
\* every b in B.
C30_Retrievable ==
    Processed =>
        /\ (lastRead.op = "GetPage" /\ lastRead.id = lastWrite.id
                /\ lastRead.page = 1) =>
              /\ lastRead.answer.err = Nil
              /\ lastRead.answer.result.Blocks = lastWrite.blocks
        /\ (lastRead.op = "GetBlock" /\ lastRead.id = lastWrite.id
                /\ lastRead.blockID \in IDsOf(lastWrite.blocks)) =>
              /\ lastRead.answer.err = Nil
              /\ \E j \in 1..Len(lastWrite.blocks) :
                    lastRead.answer.block = lastWrite.blocks[j]

\* The request exists, with its metadata, and holds no page.
C30_NoPageStoredReached ==
    /\ Processed
    /\ GetMetadataExecute(fsFiles, lastWrite.id).err = Nil
    /\ lastRead.op = "GetPage" /\ lastRead.id = lastWrite.id /\ lastRead.page = 1
    /\ lastRead.answer.err = "page not found"
    /\ \A f \in fsFiles : f.path = MetadataPath(lastWrite.id)

\* ===========================================================================
\* Properties of the template store (checked under SpecTemplates)
\* ===========================================================================
LiveIDs(ts) == { t.ID : t \in ts }

InvalidTemplateRequest(req) == req.Name = "" \/ Len(req.Fields) = 0

C29_RejectedReached ==
    /\ lastWrite.op = "CreateTemplate"
    /\ lastWrite.req.Name = "" /\ lastWrite.req.Fields # <<>>
    /\ lastWrite.err = "template name is required"
    /\ lastWrite.liveBefore # {}
    /\ lastRead.op = "ListTemplates"

C29_UnknownDeleteReached ==
    /\ lastWrite.op = "DeleteTemplate"
    /\ lastWrite.err = "template not found"
    /\ live # {}

C29_GetReached ==
    /\ lastRead.op = "GetTemplate"
    /\ lastRead.answer.err = Nil
    /\ lastRead.answer.template.Name = "invoice"
====
